---- MODULE Spec2Model ----
(***************************************************************************)
(* A model of the vswitch learning bridge: the SwitchManager registry, the *)
(* per-VLAN VirtualSwitch (acceptor, readers, aging worker, Stop) and the  *)
(* forwarding plane (processFrame / learnMAC / forwardFrame / floodFrame / *)
(* cleanupConnection / cleanupStaleMACs).  Every access to shared state    *)
(* (sync.Map operation, counter load or store, closed flag, WaitGroup,     *)
(* shutdown channel) is one step, so the interleavings of the goroutines   *)
(* are the interleavings of the actions.                                   *)
(***************************************************************************)
EXTENDS Integers, FiniteSets, Sequences, TLC

\* ---------------------------------------------------------------- bounds
\* Frames the clients send in total.
MaxFrames == 2
\* Largest value of the clock.
MaxTime == 2
\* Calls a direct caller makes on one Connection.
MaxCalls == 3

\* ------------------------------------------------------------- constants
\* vs.macTimeout (300 s); the clock counts units of 300 s.
MacTimeout == 1
\* First octet of BroadcastMAC (ff:ff:ff:ff:ff:ff).
BroadcastMAC == 255
\* The largest frame ReadFrame takes, and the size of the Ethernet header.
MaxFrameLen == 1518
MinFrameLen == 14

\* The default ports of the command line: one VLAN per port.
Ports == {9999, 9998}
\* Remote addresses of the clients.
Addrs == {"a", "b", "c"}
\* A connection is identified by its ID "<remote-addr>-<port>".
Conns == Addrs \X Ports
PortOf(c) == c[2]
NoConn == <<"none", 0>>

\* MAC addresses are identified by their first octet; the low-order bit of
\* the first octet is the group bit.
UnicastMACs == {2, 4}
GroupMACs == {1, BroadcastMAC}
SrcMACs == UnicastMACs
DstMACs == {2} \cup GroupMACs
NoFrame == [src |-> 0, dst |-> 0]
Frames == [src : SrcMACs, dst : DstMACs]

IsBroadcast(d) == d = BroadcastMAC
IsMulticast(d) == d % 2 = 1

VARIABLES
  switches,         \* sm.switches: the registered ports
  mgr,              \* the control path (main): StartAll / StopAll progress
  shutdown,         \* per port: vs.shutdown is closed
  wg,               \* per port: vs.wg counter
  connections,      \* per port: vs.connections (keys; the value of a key is the connection)
  macTable,         \* per port: vs.macTable, MAC -> [Connection, LearnedAt]
  totalFrames, broadcastFrames, unicastFrames, droppedFrames,
  listener,         \* per port: the listenOnPort goroutine
  cleaner,          \* per port: the macTableCleanup goroutine
  closed,           \* per connection: Connection.closed
  reader,           \* per connection: the handleConnection goroutine
  peer,             \* per connection: the client's end of the stream
  now,              \* time.Now()
  budget,           \* frames the clients will still send
  tally,            \* history: per port, the increments of each counter that have completed
  learners,         \* history: per port and MAC, the learnMAC calls that have completed, in order
  link,             \* per connection: the Connection's counters, its socket and its caller's last result
  pool,             \* frameBufferPool: the buffers taken and the buffers put back
  host,             \* the machine the daemon runs on: the PID file, the processes, the command line
  stats,            \* a caller of SwitchManager.GetStats: its progress and what it was returned
  extra             \* per port: the goroutines a repeated Start has added to a VLAN that has its workers

vars == <<switches, mgr, shutdown, wg, connections, macTable, totalFrames,
          broadcastFrames, unicastFrames, droppedFrames, listener, cleaner,
          closed, reader, peer, now, budget, tally, learners, link, pool, host, stats, extra>>

history == <<tally, learners>>

counters == <<totalFrames, broadcastFrames, unicastFrames, droppedFrames>>

\* ------------------------------------------------------- sync.Map helpers
MapStore(t, k, v) == [x \in DOMAIN t \cup {k} |-> IF x = k THEN v ELSE t[x]]
MapDelete(t, k) == [x \in DOMAIN t \ {k} |-> t[x]]
EmptyMap == [x \in {} |-> 0]

Set(f, p, v) == [f EXCEPT ![p] = v]

\* A reader that has not been spawned; also the shape of the record.
\*   reg     the value a counter increment has loaded
\*   todo    the keys a Range still has to visit
\*   key     the MAC key cleanupConnection is about to delete
\*   dest    entry.Connection of the looked-up entry
\*   err     processFrame's result is an error
\*   errors  floodFrame's errors (the connections whose write failed)
\*   sent    the connections WriteFrame was called on for the current frame
\*   snap    the connection set seen when the forwarding decision was taken
\*   path    how the current frame was classified
IdleReader == [pc |-> "idle", frame |-> NoFrame, reg |-> 0, todo |-> {}, key |-> 0,
               dest |-> NoConn, err |-> FALSE, errors |-> {}, sent |-> {},
               snap |-> {}, path |-> "none"]

\* History of an aging pass, empty outside a pass: the table, the closed
\* connections and the learns made when the pass began.
NoPass == [table |-> <<>>, closed |-> {}, learns |-> <<>>]

\* A VLAN with no goroutines beyond its acceptor, its aging worker and its readers.
NoExtra == [p \in Ports |-> [acceptors |-> 0, cleaners |-> 0]]

IdleListener == [pc |-> "none", conn |-> NoConn]
IdleCleaner == [pc |-> "none", now |-> 0, todo |-> {}, key |-> 0, seen |-> NoPass]
\* The caller of the SwitchManager (main, a test): its calls are made one
\* after the other.
\*   pc     "init" (nothing started), "running" (after StartAll), "stopped"
\*          (after StopAll), or the place inside the call in progress;
\*          "panic" once the process has panicked
\*   op     the call made last, arg its port, err the error it returned
\*   back   the pc to return to when RemoveVLAN is over
\*   todo   the ports StopAll still has to visit; port the VLAN Stop runs on
\*   range  the keys Stop's connections.Range still has to visit
IdleMgr == [pc |-> "init", todo |-> {}, port |-> 0, range |-> {},
            op |-> "none", arg |-> 0, err |-> "none", back |-> "init"]

\* A frame as ParseEthernetFrame builds it; nil is set for the nil pointer.
NilFrame == [nil |-> TRUE, Raw |-> <<>>, DestMAC |-> <<>>, SrcMAC |-> <<>>,
             EtherType |-> 0, Payload |-> <<>>]

\* What a call of the Connection has returned to its caller.
NoResult == [op |-> "none", err |-> "none", frame |-> NilFrame]

\* NewConnection: the counters are zero and the connection is open (closed is
\* the variable of that name).
\*   closes  the calls of c.Conn.Close()
\*   ios     the calls of c.Conn.Read / c.Conn.Write (one per io.ReadFull)
\*   rx      the bytes the client has sent and ReadFrame has not consumed
\*   tx      the bytes written to the socket and not yet taken by the client
\*   calls   the calls a direct caller of the Connection has made
\*   ret     what the last of them returned
NewConnection ==
  [FramesSent |-> 0, FramesReceived |-> 0, BytesSent |-> 0, BytesReceived |-> 0,
   LastSeen |-> 0, closes |-> 0, ios |-> 0, rx |-> <<>>, tx |-> <<>>, calls |-> 0,
   ret |-> NoResult]

\* frameBufferPool before any frame was read. getFrameBuffer takes a buffer
\* (the pool makes one when it has none). putFrameBuffer would put one back;
\* its one caller is EthernetFrame.Release, which neither ReadFrame nor the
\* switch calls, so no step of the model adds to puts.
EmptyPool == [gets |-> 0, puts |-> 0]
GetFrameBuffer(q) == [q EXCEPT !.gets = @ + 1]

\* The process identifiers the machine hands out.
Pids == {101, 102, 103}

\* The machine before any daemon was started: no PID file (pidFile 0), no
\* process, no command running.
\*   proc  per pid: "none", "starting" (started, Daemonize has not returned),
\*         "running", "stopping" (it has received SIGTERM and runs StopAll),
\*         "cleaned" (it has called Cleanup), "exited"
\*   cli   the command-line invocation in progress (-daemon, -stop), the pid
\*         it works on and the error of the last invocation
NoDaemon == [pidFile |-> 0, proc |-> [i \in Pids |-> "none"],
             cli |-> [pc |-> "idle", pid |-> 0, err |-> "none"]]

\* The sums SwitchManager.GetStats starts from.
ZeroStats == [total_frames |-> 0, broadcast_frames |-> 0, unicast_frames |-> 0,
              dropped_frames |-> 0, total_connections |-> 0, total_mac_entries |-> 0]

\* No call of SwitchManager.GetStats has been made.
\*   pc     "idle", "range" (inside the loop over sm.switches), "done"
\*   todo   the ports the loop still has to visit
\*   sum    the six running totals; vlans the vlanStats map
\*   ret    the map returned
NoStats == [pc |-> "idle", todo |-> {}, sum |-> ZeroStats, vlans |-> EmptyMap, ret |-> <<>>]

\* ------------------------------------------------------------------ Init
\* NewSwitchManager, then AddVLAN for every configured port (main); nothing
\* is started yet and no client has connected.
InitWith(ports, frames) ==
  /\ switches = ports
  /\ mgr = IdleMgr
  /\ shutdown = [p \in Ports |-> FALSE]
  /\ wg = [p \in Ports |-> 0]
  /\ connections = [p \in Ports |-> {}]
  /\ macTable = [p \in Ports |-> EmptyMap]
  /\ totalFrames = [p \in Ports |-> 0]
  /\ broadcastFrames = [p \in Ports |-> 0]
  /\ unicastFrames = [p \in Ports |-> 0]
  /\ droppedFrames = [p \in Ports |-> 0]
  /\ listener = [p \in Ports |-> IdleListener]
  /\ cleaner = [p \in Ports |-> IdleCleaner]
  /\ closed = [c \in Conns |-> FALSE]
  /\ reader = [c \in Conns |-> IdleReader]
  /\ peer = [c \in Conns |-> "away"]
  /\ now = 0
  /\ budget = frames
  /\ tally = [p \in Ports |-> [total |-> 0, broadcast |-> 0, unicast |-> 0, dropped |-> 0]]
  /\ learners = [p \in Ports |-> [m \in SrcMACs |-> <<>>]]
  /\ link = [c \in Conns |-> NewConnection]
  /\ pool = EmptyPool
  /\ host = NoDaemon
  /\ stats = NoStats
  /\ extra = NoExtra

\* A state main reaches after StartAll: every VLAN listens, its aging worker
\* waits for a tick, the connections of conns0 have been accepted and their
\* readers are at the head of their loop.
InitRunning(ports, conns0, frames) ==
  /\ switches = ports
  /\ mgr = [IdleMgr EXCEPT !.pc = "running"]
  /\ shutdown = [p \in Ports |-> FALSE]
  /\ wg = [p \in Ports |->
             IF p \in ports THEN 2 + Cardinality({c \in conns0 : PortOf(c) = p}) ELSE 0]
  /\ connections = [p \in Ports |-> {c \in conns0 : PortOf(c) = p}]
  /\ macTable = [p \in Ports |-> EmptyMap]
  /\ totalFrames = [p \in Ports |-> 0]
  /\ broadcastFrames = [p \in Ports |-> 0]
  /\ unicastFrames = [p \in Ports |-> 0]
  /\ droppedFrames = [p \in Ports |-> 0]
  /\ listener = [p \in Ports |->
                   IF p \in ports THEN [IdleListener EXCEPT !.pc = "accept"] ELSE IdleListener]
  /\ cleaner = [p \in Ports |->
                  IF p \in ports THEN [IdleCleaner EXCEPT !.pc = "wait"] ELSE IdleCleaner]
  /\ closed = [c \in Conns |-> FALSE]
  /\ reader = [c \in Conns |->
                 IF c \in conns0 THEN [IdleReader EXCEPT !.pc = "loop"] ELSE IdleReader]
  /\ peer = [c \in Conns |-> IF c \in conns0 THEN "up" ELSE "away"]
  /\ now = 0
  /\ budget = frames
  /\ tally = [p \in Ports |-> [total |-> 0, broadcast |-> 0, unicast |-> 0, dropped |-> 0]]
  /\ learners = [p \in Ports |-> [m \in SrcMACs |-> <<>>]]
  /\ link = [c \in Conns |-> NewConnection]
  /\ pool = EmptyPool
  /\ host = NoDaemon
  /\ stats = NoStats
  /\ extra = NoExtra

\* ---------------------------------------------------------- control path
\* SwitchManager.StartAll: VirtualSwitch.Start of every registered VLAN adds
\* the acceptor and the aging worker to the WaitGroup and spawns them.
StartAll ==
  /\ mgr.pc = "init"
  /\ mgr' = [mgr EXCEPT !.pc = "running", !.op = "StartAll", !.arg = 0, !.err = "none"]
  /\ wg' = [p \in Ports |-> IF p \in switches THEN wg[p] + 2 ELSE wg[p]]
  /\ listener' = [p \in Ports |->
                    IF p \in switches THEN [IdleListener EXCEPT !.pc = "listen"] ELSE listener[p]]
  /\ cleaner' = [p \in Ports |->
                   IF p \in switches THEN [IdleCleaner EXCEPT !.pc = "wait"] ELSE cleaner[p]]
  /\ UNCHANGED <<switches, shutdown, connections, macTable, counters, closed, reader,
                 peer, now, budget, history, link, pool, host, stats, extra>>

\* SwitchManager.StopAll is entered (before StartAll, after it, or after an
\* earlier StopAll): the registry is about to be ranged over.
StopAllBegin ==
  /\ mgr.pc \in {"init", "running", "stopped"}
  /\ mgr' = [mgr EXCEPT !.pc = "stopall", !.todo = switches, !.op = "StopAll",
                        !.arg = 0, !.err = "none"]
  /\ UNCHANGED <<switches, shutdown, wg, connections, macTable, counters, listener,
                 cleaner, closed, reader, peer, now, budget, history, link, pool, host, stats, extra>>

\* VirtualSwitch.Stop of the next VLAN of the range: close(vs.shutdown).
StopSignal(p) ==
  /\ mgr.pc = "stopall"
  /\ p \in mgr.todo
  /\ ~shutdown[p]
  /\ shutdown' = Set(shutdown, p, TRUE)
  /\ mgr' = [mgr EXCEPT !.pc = "stop_range", !.port = p, !.todo = @ \ {p}]
  /\ UNCHANGED <<switches, wg, connections, macTable, counters, listener, cleaner,
                 closed, reader, peer, now, budget, history, link, pool, host, stats, extra>>

\* VirtualSwitch.Stop on a VLAN that was stopped before: close(vs.shutdown)
\* of a closed channel panics.
StopPanic(p) ==
  /\ mgr.pc = "stopall"
  /\ p \in mgr.todo
  /\ shutdown[p]
  /\ mgr' = [mgr EXCEPT !.pc = "panic", !.port = p]
  /\ UNCHANGED <<switches, shutdown, wg, connections, macTable, counters, listener, cleaner,
                 closed, reader, peer, now, budget, history, link, pool, host, stats, extra>>

\* Stop: vs.connections.Range begins.
StopRange ==
  /\ mgr.pc = "stop_range"
  /\ mgr' = [mgr EXCEPT !.pc = "stop_close", !.range = connections[mgr.port]]
  /\ UNCHANGED <<switches, shutdown, wg, connections, macTable, counters, listener,
                 cleaner, closed, reader, peer, now, budget, history, link, pool, host, stats, extra>>

\* Connection.Close: the first call sets closed and closes the socket.
Close(c) == Set(closed, c, TRUE)

\* Mutant of CloseSocket: the test of c.closed is left out.
CloseSocketAlways(c) == [link EXCEPT ![c].closes = @ + 1]

\* Connection.Close: c.Conn.Close() is called unless c.closed is set already.
CloseSocket(c) == IF closed[c] THEN link ELSE [link EXCEPT ![c].closes = @ + 1]

\* Stop: one visit of the range; a key deleted since the range began is skipped.
StopClose(c) ==
  /\ mgr.pc = "stop_close"
  /\ c \in mgr.range
  /\ mgr' = [mgr EXCEPT !.range = @ \ {c}]
  /\ closed' = IF c \in connections[mgr.port] THEN Close(c) ELSE closed
  /\ link' = IF c \in connections[mgr.port] THEN CloseSocket(c) ELSE link
  /\ UNCHANGED <<switches, shutdown, wg, connections, macTable, counters, listener,
                 cleaner, reader, peer, now, budget, history, pool, host, stats, extra>>

\* Mutant of StopWait: Stop returns without vs.wg.Wait().
StopWaitSkipped ==
  /\ mgr.pc = "stop_close"
  /\ mgr.range = {}
  /\ mgr' = [mgr EXCEPT !.pc = "stopall", !.port = 0]
  /\ UNCHANGED <<switches, shutdown, wg, connections, macTable, counters, listener,
                 cleaner, closed, reader, peer, now, budget, history, link, pool, host, stats, extra>>

\* Stop: vs.wg.Wait() returns once the counter is zero.
StopWait ==
  /\ mgr.pc = "stop_close"
  /\ mgr.range = {}
  /\ wg[mgr.port] = 0
  /\ mgr' = [mgr EXCEPT !.pc = "stopall", !.port = 0]
  /\ UNCHANGED <<switches, shutdown, wg, connections, macTable, counters, listener,
                 cleaner, closed, reader, peer, now, budget, history, link, pool, host, stats, extra>>

\* Mutant of StopAllEnd: StopAll empties the registry when it is done.
StopAllEndClears ==
  /\ mgr.pc = "stopall"
  /\ mgr.op = "StopAll"
  /\ mgr.todo = {}
  /\ mgr' = [mgr EXCEPT !.pc = "stopped"]
  /\ switches' = {}
  /\ UNCHANGED <<shutdown, wg, connections, macTable, counters, listener,
                 cleaner, closed, reader, peer, now, budget, history, link, pool, host, stats, extra>>

\* StopAll returns.
StopAllEnd ==
  /\ mgr.pc = "stopall"
  /\ mgr.op = "StopAll"
  /\ mgr.todo = {}
  /\ mgr' = [mgr EXCEPT !.pc = "stopped"]
  /\ UNCHANGED <<switches, shutdown, wg, connections, macTable, counters, listener,
                 cleaner, closed, reader, peer, now, budget, history, link, pool, host, stats, extra>>

\* The caller is between two calls.
Between == mgr.pc \in {"init", "running", "stopped"}

\* Mutant of Exists: the lookup before the insertion is left out.
ExistsNever(p) == FALSE

\* AddVLAN: sm.switches[port] exists.
Exists(p) == p \in switches

\* SwitchManager.AddVLAN(p): the duplicate error, or a new VirtualSwitch
\* (NewVirtualSwitch: empty maps, zero counters, an open shutdown channel, no
\* worker) is registered for p.
AddVLAN(p) ==
  /\ Between
  /\ IF Exists(p)
       THEN /\ mgr' = [mgr EXCEPT !.op = "AddVLAN", !.arg = p, !.err = "duplicate"]
            /\ UNCHANGED <<switches, shutdown, wg, connections, macTable, counters,
                           listener, cleaner>>
       ELSE /\ mgr' = [mgr EXCEPT !.op = "AddVLAN", !.arg = p, !.err = "none"]
            /\ switches' = switches \cup {p}
            /\ shutdown' = Set(shutdown, p, FALSE)
            /\ wg' = Set(wg, p, 0)
            /\ connections' = Set(connections, p, {})
            /\ macTable' = Set(macTable, p, EmptyMap)
            /\ totalFrames' = Set(totalFrames, p, 0)
            /\ broadcastFrames' = Set(broadcastFrames, p, 0)
            /\ unicastFrames' = Set(unicastFrames, p, 0)
            /\ droppedFrames' = Set(droppedFrames, p, 0)
            /\ listener' = Set(listener, p, IdleListener)
            /\ cleaner' = Set(cleaner, p, IdleCleaner)
  /\ UNCHANGED <<closed, reader, peer, now, budget, history, link, pool, host, stats, extra>>

\* SwitchManager.RemoveVLAN(p) of a port that is not registered: the
\* not-found error.
RemoveMissing(p) ==
  /\ Between
  /\ p \notin switches
  /\ mgr' = [mgr EXCEPT !.op = "RemoveVLAN", !.arg = p, !.err = "notfound"]
  /\ UNCHANGED <<switches, shutdown, wg, connections, macTable, counters, listener,
                 cleaner, closed, reader, peer, now, budget, history, link, pool, host, stats, extra>>

\* RemoveVLAN(p) of a registered port: vs.Stop() is called.
RemoveBegin(p) ==
  /\ Between
  /\ p \in switches
  /\ mgr' = [mgr EXCEPT !.pc = "stopall", !.todo = {p}, !.op = "RemoveVLAN", !.arg = p,
                        !.err = "none", !.back = mgr.pc]
  /\ UNCHANGED <<switches, shutdown, wg, connections, macTable, counters, listener,
                 cleaner, closed, reader, peer, now, budget, history, link, pool, host, stats, extra>>

\* RemoveVLAN: vs.Stop() has returned; delete(sm.switches, port); return nil.
RemoveEnd ==
  /\ mgr.pc = "stopall"
  /\ mgr.op = "RemoveVLAN"
  /\ mgr.todo = {}
  /\ switches' = switches \ {mgr.arg}
  /\ mgr' = [mgr EXCEPT !.pc = mgr.back]
  /\ UNCHANGED <<shutdown, wg, connections, macTable, counters, listener, cleaner,
                 closed, reader, peer, now, budget, history, link, pool, host, stats, extra>>

\* A goroutine that Start spawns takes over the record of its kind when that
\* record is free (never started, or its goroutine has returned).
Free(w) == w.pc \in {"none", "done"}

\* SwitchManager.StartAll called again, after an earlier StartAll or after a
\* StopAll: VirtualSwitch.Start has no started flag, so for every registered
\* VLAN it adds two to the WaitGroup and spawns one more listenOnPort and
\* one more macTableCleanup, whether or not the VLAN has its workers.
StartAllAgain ==
  /\ mgr.pc \in {"running", "stopped"}
  /\ \A p \in switches : extra[p].cleaners < MaxCalls /\ extra[p].acceptors < MaxCalls
  /\ mgr' = [mgr EXCEPT !.op = "StartAll", !.arg = 0, !.err = "none"]
  /\ wg' = [p \in Ports |-> IF p \in switches THEN wg[p] + 2 ELSE wg[p]]
  /\ listener' = [p \in Ports |->
                    IF p \in switches /\ Free(listener[p])
                      THEN [IdleListener EXCEPT !.pc = "listen"] ELSE listener[p]]
  /\ cleaner' = [p \in Ports |->
                   IF p \in switches /\ Free(cleaner[p])
                     THEN [IdleCleaner EXCEPT !.pc = "wait"] ELSE cleaner[p]]
  /\ extra' = [p \in Ports |->
                 IF p \in switches
                   THEN [acceptors |-> extra[p].acceptors + (IF Free(listener[p]) THEN 0 ELSE 1),
                         cleaners |-> extra[p].cleaners + (IF Free(cleaner[p]) THEN 0 ELSE 1)]
                   ELSE extra[p]]
  /\ UNCHANGED <<switches, shutdown, connections, macTable, counters, closed, reader,
                 peer, now, budget, history, link, pool, host, stats>>

\* listenOnPort of a goroutine a repeated Start has added: net.Listen fails
\* while another acceptor of the VLAN holds the port, and the goroutine
\* returns; when no acceptor is left the bind may succeed, and the goroutine
\* is then the VLAN's acceptor.  (The goroutines at net.Listen are
\* interchangeable: the one of the record goes first.)
ExtraListen(p) ==
  /\ extra[p].acceptors > 0
  /\ listener[p].pc # "listen"
  /\ extra' = [extra EXCEPT ![p].acceptors = @ - 1]
  /\ \/ /\ Free(listener[p])
        /\ listener' = Set(listener, p, [IdleListener EXCEPT !.pc = "accept"])
        /\ wg' = wg
     \/ /\ listener' = listener
        /\ wg' = Set(wg, p, wg[p] - 1)
  /\ UNCHANGED <<switches, mgr, shutdown, connections, macTable, counters, cleaner,
                 closed, reader, peer, now, budget, history, link, pool, host, stats>>

\* macTableCleanup of a goroutine a repeated Start has added: the select
\* takes the shutdown case and the worker returns.  Until then it runs the
\* same passes as the VLAN's first aging worker.
ExtraCleanerExit(p) ==
  /\ extra[p].cleaners > 0
  /\ shutdown[p]
  /\ extra' = [extra EXCEPT ![p].cleaners = @ - 1]
  /\ wg' = Set(wg, p, wg[p] - 1)
  /\ UNCHANGED <<switches, mgr, shutdown, connections, macTable, counters, listener,
                 cleaner, closed, reader, peer, now, budget, history, link, pool, host, stats>>

\* --------------------------------------------------------------- acceptor
\* listenOnPort: net.Listen succeeds or fails (the goroutine then returns).
Listen(p) ==
  /\ listener[p].pc = "listen"
  /\ \/ /\ listener' = Set(listener, p, [listener[p] EXCEPT !.pc = "accept"])
        /\ wg' = wg
     \/ /\ listener' = Set(listener, p, [listener[p] EXCEPT !.pc = "done"])
        /\ wg' = Set(wg, p, wg[p] - 1)
  /\ UNCHANGED <<switches, mgr, shutdown, connections, macTable, counters, cleaner,
                 closed, reader, peer, now, budget, history, link, pool, host, stats, extra>>

\* listenOnPort: the select on vs.shutdown at the head of the accept loop
\* takes the shutdown case; the acceptor returns.
AcceptorExit(p) ==
  /\ listener[p].pc = "accept"
  /\ shutdown[p]
  /\ listener' = Set(listener, p, [listener[p] EXCEPT !.pc = "done"])
  /\ wg' = Set(wg, p, wg[p] - 1)
  /\ UNCHANGED <<switches, mgr, shutdown, connections, macTable, counters, cleaner,
                 closed, reader, peer, now, budget, history, link, pool, host, stats, extra>>

\* listenOnPort: the shutdown check passes, then Accept times out (or fails)
\* and the loop continues.
AcceptTimeout(p) ==
  /\ listener[p].pc = "accept"
  /\ ~shutdown[p]
  /\ UNCHANGED vars

\* listenOnPort: the shutdown check passes, then Accept returns the
\* connection a client has made; NewConnection.
Accept(p, c) ==
  /\ listener[p].pc = "accept"
  /\ ~shutdown[p]
  /\ peer[c] = "away"
  /\ PortOf(c) = p
  /\ peer' = Set(peer, c, "up")
  /\ listener' = Set(listener, p, [pc |-> "store", conn |-> c])
  /\ UNCHANGED <<switches, mgr, shutdown, wg, connections, macTable, counters, cleaner,
                 closed, reader, now, budget, history, link, pool, host, stats, extra>>

\* listenOnPort: vs.connections.Store(connID, connection).
Store(p) ==
  /\ listener[p].pc = "store"
  /\ connections' = Set(connections, p, connections[p] \cup {listener[p].conn})
  /\ listener' = Set(listener, p, [listener[p] EXCEPT !.pc = "spawn"])
  /\ UNCHANGED <<switches, mgr, shutdown, wg, macTable, counters, cleaner, closed,
                 reader, peer, now, budget, history, link, pool, host, stats, extra>>

\* listenOnPort: vs.wg.Add(1); go vs.handleConnection(connection).
Spawn(p) ==
  /\ listener[p].pc = "spawn"
  /\ wg' = Set(wg, p, wg[p] + 1)
  /\ reader' = Set(reader, listener[p].conn, [IdleReader EXCEPT !.pc = "loop"])
  /\ listener' = Set(listener, p, [pc |-> "accept", conn |-> NoConn])
  /\ UNCHANGED <<switches, mgr, shutdown, connections, macTable, counters, cleaner,
                 closed, peer, now, budget, history, link, pool, host, stats, extra>>

\* ----------------------------------------------------------- aging worker
\* Mutant of IsStale: an entry as old as the timeout is removed too.
IsStaleAtTimeout(entry, t) == t - entry.LearnedAt >= MacTimeout \/ closed[entry.Connection]

\* cleanupStaleMACs: the entry is too old or its connection is closed.
IsStale(entry, t) == t - entry.LearnedAt > MacTimeout \/ closed[entry.Connection]

\* macTableCleanup: the select takes the shutdown case and the worker returns.
CleanerExit(p) ==
  /\ cleaner[p].pc = "wait"
  /\ shutdown[p]
  /\ cleaner' = Set(cleaner, p, [IdleCleaner EXCEPT !.pc = "done"])
  /\ wg' = Set(wg, p, wg[p] - 1)
  /\ UNCHANGED <<switches, mgr, shutdown, connections, macTable, counters, listener,
                 closed, reader, peer, now, budget, history, link, pool, host, stats, extra>>

\* macTableCleanup: the select takes the ticker case; cleanupStaleMACs reads
\* the clock and begins its range over vs.macTable.
CleanerTick(p) ==
  /\ cleaner[p].pc = "wait"
  /\ cleaner' = Set(cleaner, p, [pc |-> "range", now |-> now,
                                 todo |-> DOMAIN macTable[p], key |-> 0,
                                 seen |-> [table |-> macTable[p],
                                           closed |-> {c \in Conns : closed[c]},
                                           learns |-> learners[p]]])
  /\ UNCHANGED <<switches, mgr, shutdown, wg, connections, macTable, counters, listener,
                 closed, reader, peer, now, budget, history, link, pool, host, stats, extra>>

\* cleanupStaleMACs: one visit of the range.  The callback sees the entry the
\* key has now; a key deleted since the range began is skipped.
CleanerVisit(p, k) ==
  /\ cleaner[p].pc = "range"
  /\ k \in cleaner[p].todo
  /\ cleaner' = Set(cleaner, p,
       IF k \in DOMAIN macTable[p] /\ IsStale(macTable[p][k], cleaner[p].now)
         THEN [cleaner[p] EXCEPT !.pc = "delete", !.key = k, !.todo = @ \ {k}]
         ELSE [cleaner[p] EXCEPT !.todo = @ \ {k}])
  /\ UNCHANGED <<switches, mgr, shutdown, wg, connections, macTable, counters, listener,
                 closed, reader, peer, now, budget, history, link, pool, host, stats, extra>>

\* cleanupStaleMACs: vs.macTable.Delete(key) of the callback.
CleanerDelete(p) ==
  /\ cleaner[p].pc = "delete"
  /\ macTable' = Set(macTable, p, MapDelete(macTable[p], cleaner[p].key))
  /\ cleaner' = Set(cleaner, p, [cleaner[p] EXCEPT !.pc = "range", !.key = 0])
  /\ UNCHANGED <<switches, mgr, shutdown, wg, connections, counters, listener,
                 closed, reader, peer, now, budget, history, link, pool, host, stats, extra>>

\* cleanupStaleMACs returns; the worker waits for the next tick.
CleanerDone(p) ==
  /\ cleaner[p].pc = "range"
  /\ cleaner[p].todo = {}
  /\ cleaner' = Set(cleaner, p, [IdleCleaner EXCEPT !.pc = "wait"])
  /\ UNCHANGED <<switches, mgr, shutdown, wg, connections, macTable, counters, listener,
                 closed, reader, peer, now, budget, history, link, pool, host, stats, extra>>

\* A client closes its end of the stream: the reader's next read meets the
\* end of the stream and writes to the connection may fail.
PeerClose(c) ==
  /\ peer[c] = "up"
  /\ peer' = Set(peer, c, "gone")
  /\ UNCHANGED <<switches, mgr, shutdown, wg, connections, macTable, counters, listener,
                 cleaner, closed, reader, now, budget, history, link, pool, host, stats, extra>>

\* A client stops reading while its receive window is full: a write to the
\* connection blocks (WriteFrame sets no write deadline).
PeerStall(c) ==
  /\ peer[c] = "up"
  /\ peer' = Set(peer, c, "stalled")
  /\ UNCHANGED <<switches, mgr, shutdown, wg, connections, macTable, counters, listener,
                 cleaner, closed, reader, now, budget, history, link, pool, host, stats, extra>>

\* Time passes.
Tick ==
  /\ now < MaxTime
  /\ now' = now + 1
  /\ UNCHANGED <<switches, mgr, shutdown, wg, connections, macTable, counters, listener,
                 cleaner, closed, reader, peer, budget, history, link, pool, host, stats, extra>>

\* ----------------------------------------------------------------- reader
\* What must not change in a step of a reader that touches only its own record.
ReaderOnly ==
  UNCHANGED <<switches, mgr, shutdown, wg, connections, macTable, counters, listener,
              cleaner, closed, peer, now, budget, history, link, pool, host, stats, extra>>

\* handleConnection: the select on vs.shutdown at the head of the read loop
\* takes the shutdown case; the reader returns.
ReaderShutdown(c) ==
  /\ reader[c].pc = "loop"
  /\ shutdown[PortOf(c)]
  /\ reader' = Set(reader, c, [reader[c] EXCEPT !.pc = "cleanup"])
  /\ ReaderOnly

\* The shutdown check has passed; ReadFrame fails because the connection is
\* closed (Stop closed it before or during the read): the reader returns.
ReadClosed(c) ==
  /\ reader[c].pc = "loop"
  /\ closed[c]
  /\ reader' = Set(reader, c, [reader[c] EXCEPT !.pc = "cleanup"])
  /\ ReaderOnly

\* handleConnection: what the reader does with ReadFrame's timeout error.
\* ReadFrame wraps the socket's error with fmt.Errorf("...: %w", err); the
\* wrapper has no Timeout method, so the type assertion err.(net.Error)
\* fails and the error is handled like every other read error: the reader
\* returns.
TimeoutNext(r) == [r EXCEPT !.pc = "cleanup"]

\* The shutdown check passes; the client sends nothing for a second and
\* ReadFrame fails with the timeout of the read deadline.
ReadTimeout(c) ==
  /\ reader[c].pc = "loop"
  /\ ~shutdown[PortOf(c)]
  /\ ~closed[c]
  /\ peer[c] = "up"
  /\ reader' = Set(reader, c, TimeoutNext(reader[c]))
  /\ ReaderOnly

\* The shutdown check passes; ReadFrame fails with the end of the stream:
\* the reader returns.
ReadError(c) ==
  /\ reader[c].pc = "loop"
  /\ ~shutdown[PortOf(c)]
  /\ ~closed[c]
  /\ peer[c] = "gone"
  /\ reader' = Set(reader, c, [reader[c] EXCEPT !.pc = "cleanup"])
  /\ ReaderOnly

\* The shutdown check passes; ReadFrame returns frame f; processFrame is called.
ReadFrame(c, f) ==
  /\ reader[c].pc = "loop"
  /\ ~shutdown[PortOf(c)]
  /\ ~closed[c]
  /\ peer[c] = "up"
  /\ budget > 0
  /\ budget' = budget - 1
  /\ reader' = Set(reader, c, [reader[c] EXCEPT !.pc = "total_ld", !.frame = f])
  /\ pool' = GetFrameBuffer(pool)
  /\ UNCHANGED <<switches, mgr, shutdown, wg, connections, macTable, counters, listener,
                 cleaner, closed, peer, now, history, link, host, stats, extra>>

\* processFrame: vs.totalFrames++ is a load ...
TotalLoad(c) ==
  /\ reader[c].pc = "total_ld"
  /\ reader' = Set(reader, c,
       [reader[c] EXCEPT !.pc = "total_st", !.reg = totalFrames[PortOf(c)]])
  /\ ReaderOnly

\* ... and a store of the loaded value plus one.
TotalStore(c) ==
  /\ reader[c].pc = "total_st"
  /\ totalFrames' = Set(totalFrames, PortOf(c), reader[c].reg + 1)
  /\ reader' = Set(reader, c, [reader[c] EXCEPT !.pc = "learn", !.reg = 0])
  /\ tally' = [tally EXCEPT ![PortOf(c)].total = @ + 1]
  /\ UNCHANGED <<switches, mgr, shutdown, wg, connections, macTable, broadcastFrames,
                 unicastFrames, droppedFrames, listener, cleaner, closed, peer, now,
                 budget, learners, link, pool, host, stats, extra>>

\* Mutant of Learn: LoadOrStore, an existing entry is kept.
LearnIfAbsent(t, mac, conn) ==
  IF mac \in DOMAIN t THEN t ELSE MapStore(t, mac, [Connection |-> conn, LearnedAt |-> now])

\* learnMAC: the table after vs.macTable.Store(mac, {conn, time.Now()}).
Learn(t, mac, conn) == MapStore(t, mac, [Connection |-> conn, LearnedAt |-> now])

\* processFrame: vs.learnMAC(frame.SrcMAC, sourceConn).
LearnMAC(c) ==
  /\ reader[c].pc = "learn"
  /\ macTable' = Set(macTable, PortOf(c), Learn(macTable[PortOf(c)], reader[c].frame.src, c))
  /\ reader' = Set(reader, c, [reader[c] EXCEPT !.pc = "class_ld"])
  /\ learners' = [learners EXCEPT ![PortOf(c)][reader[c].frame.src] =
                   Append(@, [conn |-> c, at |-> now])]
  /\ UNCHANGED <<switches, mgr, shutdown, wg, connections, counters, listener, cleaner,
                 closed, peer, now, budget, tally, link, pool, host, stats, extra>>

\* processFrame: the frame is flooded without a lookup.
IsGroup(f) == IsBroadcast(f.dst) \/ IsMulticast(f.dst)

\* processFrame: vs.broadcastFrames++ or vs.unicastFrames++, the load ...
ClassLoad(c) ==
  /\ reader[c].pc = "class_ld"
  /\ reader' = Set(reader, c,
       [reader[c] EXCEPT !.pc = "class_st",
                         !.reg = IF IsGroup(reader[c].frame)
                                   THEN broadcastFrames[PortOf(c)]
                                   ELSE unicastFrames[PortOf(c)]])
  /\ ReaderOnly

\* ... and the store; then floodFrame or forwardFrame is called.
ClassStore(c) ==
  /\ reader[c].pc = "class_st"
  /\ IF IsGroup(reader[c].frame)
       THEN /\ broadcastFrames' = Set(broadcastFrames, PortOf(c), reader[c].reg + 1)
            /\ unicastFrames' = unicastFrames
            /\ reader' = Set(reader, c,
                 [reader[c] EXCEPT !.pc = "flood", !.reg = 0, !.path = "group"])
       ELSE /\ unicastFrames' = Set(unicastFrames, PortOf(c), reader[c].reg + 1)
            /\ broadcastFrames' = broadcastFrames
            /\ reader' = Set(reader, c, [reader[c] EXCEPT !.pc = "lookup", !.reg = 0])
  /\ tally' = IF IsGroup(reader[c].frame)
                THEN [tally EXCEPT ![PortOf(c)].broadcast = @ + 1]
                ELSE [tally EXCEPT ![PortOf(c)].unicast = @ + 1]
  /\ UNCHANGED <<switches, mgr, shutdown, wg, connections, macTable, totalFrames,
                 droppedFrames, listener, cleaner, closed, peer, now, budget, learners, link, pool, host, stats, extra>>

\* forwardFrame: vs.macTable.Load(destMAC) and the comparison with the source.
\*   not found           floodFrame is called
\*   found, the source   return nil
\*   found, another      entry.Connection is examined next
Lookup(c) ==
  /\ reader[c].pc = "lookup"
  /\ LET t == macTable[PortOf(c)]
         d == reader[c].frame.dst
     IN reader' = Set(reader, c,
          IF d \notin DOMAIN t
            THEN [reader[c] EXCEPT !.pc = "flood", !.path = "miss"]
            ELSE IF t[d].Connection = c
              THEN [reader[c] EXCEPT !.pc = "ret", !.path = "self"]
              ELSE [reader[c] EXCEPT !.pc = "isclosed", !.dest = t[d].Connection,
                                      !.path = IF closed[t[d].Connection] THEN "closed" ELSE "open"])
  /\ ReaderOnly

\* forwardFrame: the entry's connection is closed; nothing is written and nil
\* is returned.  (path "stale": closed when the entry was loaded; "raced":
\* closed between the load and IsClosed.)
ClosedTarget(r) ==
  [r EXCEPT !.pc = "ret", !.path = IF r.path = "closed" THEN "stale" ELSE "raced"]

\* forwardFrame: entry.Connection.IsClosed().
ForwardCheck(c) ==
  /\ reader[c].pc = "isclosed"
  /\ reader' = Set(reader, c,
       IF closed[reader[c].dest]
         THEN ClosedTarget([reader[c] EXCEPT !.snap = connections[PortOf(c)]])
         ELSE [reader[c] EXCEPT !.pc = "write", !.path = "hit"])
  /\ ReaderOnly

\* Connection.WriteFrame(frame) on d: the closed error when d is closed;
\* otherwise the socket takes the record, or, once the client is gone, the
\* write may fail, or, when the client has stalled, the write blocks.
WriteResults(d) ==
  IF closed[d] THEN {"closed"}
  ELSE IF peer[d] = "gone" THEN {"ok", "failed"}
  ELSE IF peer[d] = "stalled" THEN {"block"}
  ELSE {"ok"}

\* Mutant of ForwardWrite: a successful write falls through to floodFrame.
ForwardWriteThenFlood(c, res) ==
  /\ reader[c].pc = "write"
  /\ res \in WriteResults(reader[c].dest) \ {"block"}
  /\ reader' = Set(reader, c,
       [reader[c] EXCEPT !.pc = IF res = "ok" THEN "flood" ELSE "ret",
                         !.sent = @ \cup {reader[c].dest}, !.err = (res # "ok")])
  /\ ReaderOnly

\* forwardFrame: entry.Connection.WriteFrame(frame); an error is returned.
ForwardWrite(c, res) ==
  /\ reader[c].pc = "write"
  /\ res \in WriteResults(reader[c].dest)
  /\ reader' = Set(reader, c,
       IF res = "block"
         THEN [reader[c] EXCEPT !.pc = "blocked"]
         ELSE [reader[c] EXCEPT !.pc = "ret", !.sent = @ \cup {reader[c].dest},
                                 !.err = (res # "ok")])
  /\ ReaderOnly

\* Mutant of RangeConnections: one connection map is shared by all VLANs.
RangeConnectionsShared(p) == UNION {connections[q] : q \in Ports}

\* floodFrame: the keys vs.connections.Range visits.
RangeConnections(p) == connections[p]

\* floodFrame: vs.connections.Range begins.
FloodBegin(c) ==
  /\ reader[c].pc = "flood"
  /\ reader' = Set(reader, c,
       [reader[c] EXCEPT !.pc = IF RangeConnections(PortOf(c)) = {} THEN "ret" ELSE "range",
                         !.todo = RangeConnections(PortOf(c)),
                         !.snap = connections[PortOf(c)]])
  /\ ReaderOnly

\* Mutant of FloodSkips: the comparison with the source is left out.
FloodSkipsClosedOnly(conn, sourceConn) == closed[conn]

\* floodFrame: the callback returns without writing to conn.
FloodSkips(conn, sourceConn) == conn = sourceConn \/ closed[conn]

\* Mutant of FloodRest: the callback returns false, which ends the range.
FloodRestNone(todo, k, res) == {}

\* floodFrame: the keys left to visit after the callback has run on k.
FloodRest(todo, k, res) == todo \ {k}

\* floodFrame: one visit of the range.  A key deleted since the range began
\* is skipped; the callback skips the source and closed connections and
\* otherwise calls WriteFrame, collecting its error.  After the last visit
\* floodFrame returns nil.
FloodVisit(c, k, res) ==
  /\ reader[c].pc = "range"
  /\ k \in reader[c].todo
  /\ LET r == reader[c]
         rest == FloodRest(r.todo, k, res)
         pc2 == IF rest = {} THEN "ret" ELSE "range"
     IN IF k \notin RangeConnections(PortOf(c)) \/ FloodSkips(k, c)
          THEN /\ res = "skip"
               /\ reader' = Set(reader, c, [r EXCEPT !.pc = pc2, !.todo = rest])
          ELSE /\ res \in WriteResults(k)
               /\ reader' = Set(reader, c,
                    IF res = "block"
                      THEN [r EXCEPT !.pc = "blocked", !.dest = k]
                      ELSE [r EXCEPT !.pc = pc2, !.todo = rest, !.sent = @ \cup {k},
                                     !.errors = IF res = "ok" THEN @ ELSE @ \cup {k}])
  /\ ReaderOnly

\* A WriteFrame that was blocked in Conn.Write returns an error once the
\* connection it writes to has been closed: forwardFrame returns the error,
\* floodFrame collects it and goes on with the range.
WriteUnblock(c) ==
  /\ reader[c].pc = "blocked"
  /\ closed[reader[c].dest]
  /\ LET r == reader[c]
         rest == FloodRest(r.todo, r.dest, "failed")
     IN reader' = Set(reader, c,
          IF r.path = "hit"
            THEN [r EXCEPT !.pc = "ret", !.sent = @ \cup {r.dest}, !.err = TRUE]
            ELSE [r EXCEPT !.pc = IF rest = {} THEN "ret" ELSE "range", !.todo = rest,
                           !.sent = @ \cup {r.dest}, !.errors = @ \cup {r.dest},
                           !.dest = NoConn])
  /\ ReaderOnly

\* The per-frame fields of a reader's record, cleared when the frame is done.
FrameDone(r, pc) == [IdleReader EXCEPT !.pc = pc]

\* handleConnection: processFrame has returned; an error is counted as a drop.
Return(c) ==
  /\ reader[c].pc = "ret"
  /\ reader' = Set(reader, c, FrameDone(reader[c], IF reader[c].err THEN "drop_ld" ELSE "loop"))
  /\ ReaderOnly

\* handleConnection: vs.droppedFrames++, the load ...
DropLoad(c) ==
  /\ reader[c].pc = "drop_ld"
  /\ reader' = Set(reader, c,
       [reader[c] EXCEPT !.pc = "drop_st", !.reg = droppedFrames[PortOf(c)]])
  /\ ReaderOnly

\* ... and the store.
DropStore(c) ==
  /\ reader[c].pc = "drop_st"
  /\ droppedFrames' = Set(droppedFrames, PortOf(c), reader[c].reg + 1)
  /\ reader' = Set(reader, c, [reader[c] EXCEPT !.pc = "loop", !.reg = 0])
  /\ tally' = [tally EXCEPT ![PortOf(c)].dropped = @ + 1]
  /\ UNCHANGED <<switches, mgr, shutdown, wg, connections, macTable, totalFrames,
                 broadcastFrames, unicastFrames, listener, cleaner, closed, peer, now,
                 budget, learners, link, pool, host, stats, extra>>

\* Mutant of CleanupBegin: the connection is left in the connection set.
CleanupBeginKeeps(c) ==
  /\ reader[c].pc = "cleanup"
  /\ reader' = Set(reader, c,
       [reader[c] EXCEPT !.pc = "sweep", !.todo = DOMAIN macTable[PortOf(c)]])
  /\ ReaderOnly

\* cleanupConnection (deferred by handleConnection): vs.connections.Delete(conn.ID);
\* then vs.macTable.Range begins.
CleanupBegin(c) ==
  /\ reader[c].pc = "cleanup"
  /\ connections' = Set(connections, PortOf(c), connections[PortOf(c)] \ {c})
  /\ reader' = Set(reader, c,
       [reader[c] EXCEPT !.pc = "sweep", !.todo = DOMAIN macTable[PortOf(c)]])
  /\ UNCHANGED <<switches, mgr, shutdown, wg, macTable, counters, listener, cleaner,
                 closed, peer, now, budget, history, link, pool, host, stats, extra>>

\* Mutant of BoundTo: the comparison is inverted.
BoundToOther(entry, conn) == entry.Connection # conn

\* cleanupConnection: the callback's test of an entry.
BoundTo(entry, conn) == entry.Connection = conn

\* cleanupConnection: one visit of the range.  The callback sees the entry the
\* key has now; a key deleted since the range began is skipped.
CleanupVisit(c, k) ==
  /\ reader[c].pc = "sweep"
  /\ k \in reader[c].todo
  /\ LET t == macTable[PortOf(c)]
     IN reader' = Set(reader, c,
          IF k \in DOMAIN t /\ BoundTo(t[k], c)
            THEN [reader[c] EXCEPT !.pc = "evict", !.key = k, !.todo = @ \ {k}]
            ELSE [reader[c] EXCEPT !.todo = @ \ {k}])
  /\ ReaderOnly

\* cleanupConnection: vs.macTable.Delete(key) of the callback.
CleanupDelete(c) ==
  /\ reader[c].pc = "evict"
  /\ macTable' = Set(macTable, PortOf(c), MapDelete(macTable[PortOf(c)], reader[c].key))
  /\ reader' = Set(reader, c, [reader[c] EXCEPT !.pc = "sweep", !.key = 0])
  /\ UNCHANGED <<switches, mgr, shutdown, wg, connections, counters, listener, cleaner,
                 closed, peer, now, budget, history, link, pool, host, stats, extra>>

\* Mutant of CleanupClose: cleanupConnection returns without conn.Close().
CleanupCloseSkipped(c) ==
  /\ reader[c].pc = "sweep"
  /\ reader[c].todo = {}
  /\ reader' = Set(reader, c, [reader[c] EXCEPT !.pc = "exit"])
  /\ ReaderOnly

\* cleanupConnection: the range is over; conn.Close().
CleanupClose(c) ==
  /\ reader[c].pc = "sweep"
  /\ reader[c].todo = {}
  /\ closed' = Close(c)
  /\ link' = CloseSocket(c)
  /\ reader' = Set(reader, c, [reader[c] EXCEPT !.pc = "exit"])
  /\ UNCHANGED <<switches, mgr, shutdown, wg, connections, macTable, counters, listener,
                 cleaner, peer, now, budget, history, pool, host, stats, extra>>

\* handleConnection returns: the deferred vs.wg.Done().
ReaderExit(c) ==
  /\ reader[c].pc = "exit"
  /\ wg' = Set(wg, PortOf(c), wg[PortOf(c)] - 1)
  /\ reader' = Set(reader, c, [IdleReader EXCEPT !.pc = "done"])
  /\ UNCHANGED <<switches, mgr, shutdown, connections, macTable, counters, listener,
                 cleaner, closed, peer, now, budget, history, link, pool, host, stats, extra>>

\* ------------------------------------------------------------ connection
\* The calls of a Connection seen from a direct caller (a test, or the
\* switch's own reader and writers), with the bytes on the socket.  A byte
\* is a number in 0..255, a buffer a sequence of bytes.

\* ParseEthernetFrame of 14 bytes or more.
ParseEthernetFrame(data) ==
  [nil |-> FALSE, Raw |-> data, DestMAC |-> SubSeq(data, 1, 6), SrcMAC |-> SubSeq(data, 7, 12),
   EtherType |-> data[13] * 256 + data[14], Payload |-> SubSeq(data, 15, Len(data))]

\* Mutant of Validate: the test of the source MAC is left out.
ValidateLengthOnly(f) ==
  IF Len(f.Raw) < MinFrameLen THEN "short"
  ELSE IF Len(f.Raw) > MaxFrameLen THEN "long"
  ELSE "none"

\* EthernetFrame.Validate: the error it returns, "none" for nil.
Validate(f) ==
  IF Len(f.Raw) < MinFrameLen THEN "short"
  ELSE IF Len(f.Raw) > MaxFrameLen THEN "long"
  ELSE IF f.SrcMAC = <<0, 0, 0, 0, 0, 0>> THEN "source"
  ELSE "none"

\* ReadFrame: the uint32 the four length bytes stand for, most significant
\* byte first.  The shifted bytes do not overlap, so the bitwise or is a sum;
\* the value is kept as its two 16-bit halves, hi * 65536 + lo, because it
\* can exceed the integers of the model checker.
FrameLen(lengthBytes) ==
  [hi |-> lengthBytes[1] * 256 + lengthBytes[2], lo |-> lengthBytes[3] * 256 + lengthBytes[4]]

\* frameLen == 0 and frameLen > k for such a value, k below 65536.
IsZero(n) == n.hi = 0 /\ n.lo = 0
Exceeds(n, k) == n.hi > 0 \/ n.lo > k

\* Mutant of LengthBytes: the length is written low byte first.
LengthBytesLittleEndian(frameLen) ==
  <<frameLen % 256, (frameLen \div 256) % 256, (frameLen \div 65536) % 256,
    (frameLen \div 16777216) % 256>>

\* WriteFrame: byte(frameLen >> 24), byte(frameLen >> 16), byte(frameLen >> 8),
\* byte(frameLen).
LengthBytes(frameLen) ==
  <<(frameLen \div 16777216) % 256, (frameLen \div 65536) % 256, (frameLen \div 256) % 256,
    frameLen % 256>>

\* io.ReadFull(c.Conn, buf) with len(buf) = n on the stream rx: the bytes it
\* delivers and the bytes left on the stream.  When the stream ends (or the
\* read deadline passes) before n bytes have come, the call fails and what
\* had come is consumed.
ReadFull(rx, n) ==
  IF Len(rx) >= n
    THEN [ok |-> TRUE, data |-> SubSeq(rx, 1, n), rest |-> SubSeq(rx, n + 1, Len(rx))]
    ELSE [ok |-> FALSE, data |-> <<>>, rest |-> <<>>]

\* ReadFrame on an open connection whose stream is rx: the error ("none" on
\* success), the frame, the bytes left on the stream, the reads made, and
\* whether a buffer was taken from the pool (before the second read).
ReadOutcome(rx) ==
  LET head == ReadFull(rx, 4)
      failed(e, rest, n) == [err |-> e, frame |-> NilFrame, rest |-> rest, ios |-> n,
                             got |-> n = 2]
  IN IF ~head.ok THEN failed("length", head.rest, 1)
     ELSE LET frameLen == FrameLen(head.data)
          IN IF IsZero(frameLen) \/ Exceeds(frameLen, MaxFrameLen)
               THEN failed("invalid length", head.rest, 1)
               ELSE LET body == ReadFull(head.rest, frameLen.lo)
                    IN IF ~body.ok THEN failed("data", body.rest, 2)
                       ELSE IF Len(body.data) < MinFrameLen
                         THEN failed("parse", body.rest, 2)
                         ELSE IF Validate(ParseEthernetFrame(body.data)) # "none"
                           THEN failed("invalid", body.rest, 2)
                           ELSE [err |-> "none", frame |-> ParseEthernetFrame(body.data),
                                 rest |-> body.rest, ios |-> 2, got |-> TRUE]

\* ReadFrame: the error returned before the socket is touched.
ReadRefused(c) == IF closed[c] THEN "closed" ELSE "none"

\* Mutant of WriteRefused: the test of c.closed is left out.
WriteRefusedOpen(c, frame) ==
  IF frame.nil THEN "nil"
  ELSE IF Len(frame.Raw) = 0 THEN "empty"
  ELSE "none"

\* WriteFrame: the error returned before the socket is touched; the nil test
\* comes first, then c.closed, then the empty frame.
WriteRefused(c, frame) ==
  IF frame.nil THEN "nil"
  ELSE IF closed[c] THEN "closed"
  ELSE IF Len(frame.Raw) = 0 THEN "empty"
  ELSE "none"

\* The caller's record of a call.
Called(r, op, err, frame) ==
  [r EXCEPT !.calls = @ + 1, !.ret = [op |-> op, err |-> err, frame |-> frame]]

\* ReadFrame: the Connection after the outcome o; the counters and LastSeen
\* are updated on success.
Received(r, o) ==
  IF o.err = "none"
    THEN [r EXCEPT !.rx = o.rest, !.ios = @ + o.ios, !.FramesReceived = @ + 1,
                   !.BytesReceived = @ + Len(o.frame.Raw), !.LastSeen = now]
    ELSE [r EXCEPT !.rx = o.rest, !.ios = @ + o.ios]

\* Connection.ReadFrame() called directly.
ConnReadFrame(c) ==
  /\ link[c].calls < MaxCalls
  /\ IF ReadRefused(c) # "none"
       THEN /\ link' = [link EXCEPT ![c] = Called(@, "ReadFrame", ReadRefused(c), NilFrame)]
            /\ pool' = pool
       ELSE LET o == ReadOutcome(link[c].rx)
            IN /\ link' = [link EXCEPT ![c] =
                    IF o.err = "none"
                      THEN Called(Received(@, o), "ReadFrame", "none", o.frame)
                      ELSE Called(Received(@, o), "ReadFrame", o.err, NilFrame)]
               /\ pool' = IF o.got THEN GetFrameBuffer(pool) ELSE pool
  /\ UNCHANGED <<switches, mgr, shutdown, wg, connections, macTable, counters, listener,
                 cleaner, closed, reader, peer, now, budget, history, host, stats, extra>>

\* Connection.WriteFrame(frame) called directly; res is how the writes to the
\* socket go: both succeed, the first fails, or the second fails after the
\* length has gone out.
ConnWriteFrame(c, frame, res) ==
  /\ link[c].calls < MaxCalls
  /\ IF WriteRefused(c, frame) # "none"
       THEN /\ res = "ok"
            /\ link' = [link EXCEPT ![c] = Called(@, "WriteFrame", WriteRefused(c, frame), frame)]
       ELSE LET lengthBytes == LengthBytes(Len(frame.Raw))
            IN link' = [link EXCEPT ![c] =
                 IF res = "length failed"
                   THEN Called([@ EXCEPT !.ios = @ + 1], "WriteFrame", res, frame)
                 ELSE IF res = "data failed"
                   THEN Called([@ EXCEPT !.ios = @ + 2, !.tx = @ \o lengthBytes],
                               "WriteFrame", res, frame)
                 ELSE Called([@ EXCEPT !.ios = @ + 2, !.tx = @ \o lengthBytes \o frame.Raw,
                                       !.FramesSent = @ + 1,
                                       !.BytesSent = @ + Len(frame.Raw)],
                             "WriteFrame", "none", frame)]
  /\ UNCHANGED <<switches, mgr, shutdown, wg, connections, macTable, counters, listener,
                 cleaner, closed, reader, peer, now, budget, history, pool, host, stats, extra>>

\* Connection.Close() called directly; res is what c.Conn.Close() returns
\* when it is called.
ConnClose(c, res) ==
  /\ link[c].calls < MaxCalls
  /\ closed' = Close(c)
  /\ link' = [CloseSocket(c) EXCEPT ![c] =
                Called(@, "Close", IF closed[c] THEN "none" ELSE res, NilFrame)]
  /\ UNCHANGED <<switches, mgr, shutdown, wg, connections, macTable, counters, listener,
                 cleaner, reader, peer, now, budget, history, pool, host, stats, extra>>

\* The client sends the bytes s.
PeerSend(c, s) ==
  /\ peer[c] = "up"
  /\ ~closed[c]
  /\ budget > 0
  /\ link[c].rx = <<>>
  /\ budget' = budget - 1
  /\ link' = [link EXCEPT ![c].rx = s]
  /\ UNCHANGED <<switches, mgr, shutdown, wg, connections, macTable, counters, listener,
                 cleaner, closed, reader, peer, now, history, pool, host, stats, extra>>

\* The client sends back what it has received.
PeerEcho(c) ==
  /\ peer[c] = "up"
  /\ ~closed[c]
  /\ link[c].tx # <<>>
  /\ link[c].rx = <<>>
  /\ link' = [link EXCEPT ![c].rx = link[c].tx, ![c].tx = <<>>]
  /\ UNCHANGED <<switches, mgr, shutdown, wg, connections, macTable, counters, listener,
                 cleaner, closed, reader, peer, now, budget, history, pool, host, stats, extra>>

\* The first n bytes of an Ethernet frame to the broadcast address from the
\* MAC 00:00:00:00:00:s, EtherType 0x0806.
Body(n, s) ==
  [i \in 1..n |-> IF i <= 6 THEN BroadcastMAC
                  ELSE IF i <= 11 THEN 0
                  ELSE IF i = 12 THEN s
                  ELSE IF i = 13 THEN 8
                  ELSE IF i = 14 THEN 6
                  ELSE i % 256]

\* What the clients send: frames of every length around the limits, whole or
\* cut short, with a zero or a non-zero source, lengths whose high bytes are
\* set, a cut length prefix, and two frames back to back.
Streams ==
  {LengthBytes(n) \o Body(n, 4) : n \in {0, 1, 13, 14, 15, 1518, 1519}}
  \cup {LengthBytes(n) \o Body(n, 0) : n \in {14, 1518}}
  \cup {LengthBytes(n) \o Body(n - 1, 4) : n \in {14, 1518}}
  \cup {<<0, 1, 0, 14>> \o Body(14, 4), <<14, 0, 0, 0>> \o Body(14, 4), <<0, 0, 0>>,
        LengthBytes(14) \o Body(14, 4) \o LengthBytes(15) \o Body(15, 2)}

\* The frames the callers write: nil, a frame without data, and parsed
\* frames of the smallest and the largest length.
WriteFrames ==
  {NilFrame, [NilFrame EXCEPT !.nil = FALSE]}
  \cup {ParseEthernetFrame(Body(n, 4)) : n \in {14, 15, 1518}}
  \cup {ParseEthernetFrame(Body(14, 0))}

\* The six octets of the MAC address identified by m.
MACBytes(m) == IF m = BroadcastMAC THEN <<255, 255, 255, 255, 255, 255>>
               ELSE <<m, 0, 0, 0, 0, 0>>

\* frame.Raw of the frame f a reader holds: destination, source, EtherType
\* 0x0800, no payload.
RawOf(f) == MACBytes(f.dst) \o MACBytes(f.src) \o <<8, 0>>

\* Connection.WriteFrame(frame) on k, called by reader c from forwardFrame
\* (k is the entry's connection) or from the callback of floodFrame's range
\* (k is the connection visited): k is open, and the first c.Conn.Write puts
\* the four length bytes on k's socket.  Nothing is locked while the socket
\* is written: the read lock taken for the closed check is released before.
WriteLength(c, k) ==
  /\ \/ reader[c].pc = "write" /\ k = reader[c].dest
     \/ /\ reader[c].pc = "range" /\ k \in reader[c].todo
        /\ k \in RangeConnections(PortOf(c)) /\ ~FloodSkips(k, c)
  /\ ~closed[k] /\ peer[k] = "up"
  /\ link' = [link EXCEPT ![k].tx = @ \o LengthBytes(Len(RawOf(reader[c].frame))),
                          ![k].ios = @ + 1]
  /\ reader' = Set(reader, c, [reader[c] EXCEPT !.pc = "wdata", !.dest = k])
  /\ UNCHANGED <<switches, mgr, shutdown, wg, connections, macTable, counters, listener,
                 cleaner, closed, peer, now, budget, history, pool, host, stats, extra>>

\* WriteFrame, continued: the second c.Conn.Write puts frame.Raw on the
\* socket, the counters are updated under the lock and nil is returned:
\* forwardFrame returns, floodFrame's range goes on.
WriteData(c) ==
  /\ reader[c].pc = "wdata"
  /\ LET r == reader[c]
         k == r.dest
         rest == FloodRest(r.todo, k, "ok")
     IN /\ link' = [link EXCEPT ![k].tx = @ \o RawOf(r.frame),
                                ![k].ios = @ + 1,
                                ![k].FramesSent = @ + 1,
                                ![k].BytesSent = @ + Len(RawOf(r.frame))]
        /\ reader' = Set(reader, c,
             IF r.path = "hit"
               THEN [r EXCEPT !.pc = "ret", !.sent = @ \cup {k}]
               ELSE [r EXCEPT !.pc = IF rest = {} THEN "ret" ELSE "range", !.todo = rest,
                              !.sent = @ \cup {k}, !.dest = NoConn])
  /\ UNCHANGED <<switches, mgr, shutdown, wg, connections, macTable, counters, listener,
                 cleaner, closed, peer, now, budget, history, pool, host, stats, extra>>

\* The frame a reader holds for a parsed frame: its addresses, identified by
\* their first octet.
FrameOf(frame) == [src |-> frame.SrcMAC[1], dst |-> frame.DestMAC[1]]

\* Mutant of ReadNext: a record that cannot be read is skipped and the loop
\* continues.
ReadNextSkips(r, o) ==
  IF o.err = "none" THEN [r EXCEPT !.pc = "total_ld", !.frame = FrameOf(o.frame)]
  ELSE r

\* handleConnection: what the reader does with ReadFrame's outcome o:
\* processFrame is called with the frame; on an error (none of them is a
\* net.Error) the reader returns.
ReadNext(r, o) ==
  IF o.err = "none" THEN [r EXCEPT !.pc = "total_ld", !.frame = FrameOf(o.frame)]
  ELSE [r EXCEPT !.pc = "cleanup"]

\* handleConnection: the shutdown check passes and conn.ReadFrame() reads
\* the bytes the client has sent.
ReadStream(c) ==
  /\ reader[c].pc = "loop"
  /\ ~shutdown[PortOf(c)]
  /\ ~closed[c]
  /\ peer[c] = "up"
  /\ link[c].rx # <<>>
  /\ LET o == ReadOutcome(link[c].rx)
     IN /\ link' = [link EXCEPT ![c] = Received(@, o)]
        /\ pool' = IF o.got THEN GetFrameBuffer(pool) ELSE pool
        /\ reader' = Set(reader, c, ReadNext(reader[c], o))
  /\ UNCHANGED <<switches, mgr, shutdown, wg, connections, macTable, counters, listener,
                 cleaner, closed, peer, now, budget, history, host, stats, extra>>

\* What a client that breaks the framing sends: the prefix 2048, the prefix
\* 0, a cut prefix, a body cut short, a record of 13 bytes, a frame from the
\* all-zero MAC, and a good frame alone or followed by the prefix 2048.
ErrStreams ==
  LET good == LengthBytes(14) \o RawOf([src |-> 4, dst |-> BroadcastMAC])
  IN {<<0, 0, 8, 0>>, <<0, 0, 0, 0>>, <<0, 0, 0>>,
      LengthBytes(14) \o SubSeq(RawOf([src |-> 4, dst |-> 2]), 1, 13),
      LengthBytes(13) \o SubSeq(RawOf([src |-> 4, dst |-> 2]), 1, 13),
      LengthBytes(14) \o RawOf([src |-> 0, dst |-> 2]),
      good, good \o <<0, 0, 8, 0>>}

\* VirtualSwitch.GetStats of the VLAN on port p.
VlanStats(p) ==
  [total_frames |-> totalFrames[p], broadcast_frames |-> broadcastFrames[p],
   unicast_frames |-> unicastFrames[p], dropped_frames |-> droppedFrames[p],
   connections |-> Cardinality(connections[p]),
   mac_entries |-> Cardinality(DOMAIN macTable[p])]

\* Mutant of AddStats: the totals are overwritten, not added to.
AddStatsLast(sum, s) ==
  [total_frames |-> s.total_frames,
   broadcast_frames |-> s.broadcast_frames,
   unicast_frames |-> s.unicast_frames,
   dropped_frames |-> s.dropped_frames,
   total_connections |-> s.connections,
   total_mac_entries |-> s.mac_entries]

\* SwitchManager.GetStats: the body of the loop adds the VLAN's stats s to
\* the running totals.
AddStats(sum, s) ==
  [total_frames |-> sum.total_frames + s.total_frames,
   broadcast_frames |-> sum.broadcast_frames + s.broadcast_frames,
   unicast_frames |-> sum.unicast_frames + s.unicast_frames,
   dropped_frames |-> sum.dropped_frames + s.dropped_frames,
   total_connections |-> sum.total_connections + s.connections,
   total_mac_entries |-> sum.total_mac_entries + s.mac_entries]

\* What changes in a step of GetStats: the caller's record only.
StatsOnly ==
  UNCHANGED <<switches, mgr, shutdown, wg, connections, macTable, counters, listener,
              cleaner, closed, reader, peer, now, budget, history, link, pool, host, extra>>

\* SwitchManager.GetStats is called: the read lock is taken (the registry
\* cannot change until it is released), the totals are zero and the loop
\* over sm.switches begins.
GetStatsBegin ==
  /\ stats.pc \in {"idle", "done"}
  /\ stats' = [NoStats EXCEPT !.pc = "range", !.todo = switches]
  /\ StatsOnly

\* GetStats: one iteration of the loop, for port p in whatever order the
\* map yields: vs.GetStats(), six additions, vlanStats["vlan_<port>"].
GetStatsVisit(p) ==
  /\ stats.pc = "range"
  /\ p \in stats.todo
  /\ stats' = [stats EXCEPT !.todo = @ \ {p},
                            !.sum = AddStats(@, VlanStats(p)),
                            !.vlans = MapStore(@, <<"vlan", p>>, VlanStats(p))]
  /\ StatsOnly

\* GetStats returns the map.
GetStatsReturn ==
  /\ stats.pc = "range"
  /\ stats.todo = {}
  /\ stats' = [stats EXCEPT !.pc = "done",
                 !.ret = [total_frames |-> stats.sum.total_frames,
                          broadcast_frames |-> stats.sum.broadcast_frames,
                          unicast_frames |-> stats.sum.unicast_frames,
                          dropped_frames |-> stats.sum.dropped_frames,
                          total_connections |-> stats.sum.total_connections,
                          total_mac_entries |-> stats.sum.total_mac_entries,
                          vlans |-> stats.vlans,
                          vlan_count |-> Cardinality(switches)]]
  /\ StatsOnly

\* What changes in a step of the command line or of a daemon process: the
\* machine only.
HostOnly ==
  UNCHANGED <<switches, mgr, shutdown, wg, connections, macTable, counters, listener,
              cleaner, closed, reader, peer, now, budget, history, link, pool, stats, extra>>

\* process.Signal succeeds: the process exists and has not exited.
Alive(i) == i \in Pids /\ host.proc[i] \in {"starting", "running", "stopping", "cleaned"}

\* DaemonManager.IsRunning: the PID file can be read and signal 0 reaches
\* the process it names.
IsRunning == host.pidFile # 0 /\ Alive(host.pidFile)

\* main -daemon, DaemonManager.Daemonize: a daemon is running already and an
\* error is returned; or cmd.Start() starts the daemon process i.
DaemonizeStart(i) ==
  /\ host.cli.pc = "idle"
  /\ IF IsRunning
       THEN host' = [host EXCEPT !.cli = [pc |-> "idle", pid |-> 0, err |-> "running"]]
       ELSE /\ host.proc[i] = "none"
            /\ host' = [host EXCEPT !.proc[i] = "starting",
                                    !.cli = [pc |-> "write", pid |-> i, err |-> "none"]]
  /\ HostOnly

\* Daemonize, continued: writePIDFile(cmd.Process.Pid) and nil is returned;
\* or the file cannot be written, the process is killed and an error is
\* returned.
DaemonizeWrite(ok) ==
  /\ host.cli.pc = "write"
  /\ LET i == host.cli.pid
     IN host' = IF ok
          THEN [host EXCEPT !.pidFile = i, !.proc[i] = "running",
                            !.cli = [pc |-> "idle", pid |-> 0, err |-> "none"]]
          ELSE [host EXCEPT !.proc[i] = "exited",
                            !.cli = [pc |-> "idle", pid |-> 0, err |-> "write"]]
  /\ HostOnly

\* main -stop, DaemonManager.Stop: readPIDFile; without a file an error is
\* returned.
DaemonStopRead ==
  /\ host.cli.pc = "idle"
  /\ host' = IF host.pidFile = 0
       THEN [host EXCEPT !.cli = [pc |-> "idle", pid |-> 0, err |-> "read"]]
       ELSE [host EXCEPT !.cli = [pc |-> "signal", pid |-> host.pidFile, err |-> "none"]]
  /\ HostOnly

\* Stop, continued: process.Signal(SIGTERM); when the process is gone an
\* error is returned and the file is left.  The daemon receives the signal
\* on sigChan and begins its shutdown.
DaemonStopSignal ==
  /\ host.cli.pc = "signal"
  /\ LET i == host.cli.pid
     IN host' = IF Alive(i)
          THEN [host EXCEPT !.proc[i] = IF @ = "running" THEN "stopping" ELSE @,
                            !.cli.pc = "remove"]
          ELSE [host EXCEPT !.cli = [pc |-> "idle", pid |-> 0, err |-> "signal"]]
  /\ HostOnly

\* Stop, continued: os.Remove(dm.pidFile) right after the signal was sent,
\* and nil is returned.
DaemonStopRemove ==
  /\ host.cli.pc = "remove"
  /\ host' = [host EXCEPT !.pidFile = 0, !.cli = [pc |-> "idle", pid |-> 0, err |-> "none"]]
  /\ HostOnly

\* main of the daemon process i after the signal: sm.StopAll() has returned
\* and dm.Cleanup() removes the PID file, whatever it contains.
DaemonCleanup(i) ==
  /\ host.proc[i] = "stopping"
  /\ host' = [host EXCEPT !.pidFile = 0, !.proc[i] = "cleaned"]
  /\ HostOnly

\* main of the daemon process i returns.
DaemonExit(i) ==
  /\ host.proc[i] = "cleaned"
  /\ host' = [host EXCEPT !.proc[i] = "exited"]
  /\ HostOnly

\* ------------------------------------------------------------ next-state
Stopping == (\E p \in Ports : StopSignal(p)) \/ StopRange
              \/ (\E c \in Conns : StopClose(c)) \/ StopWait

Control == StartAll \/ StopAllBegin \/ Stopping \/ (\E p \in Ports : StopPanic(p))
             \/ StopAllEnd

Acceptor(p) == Listen(p) \/ AcceptorExit(p) \/ AcceptTimeout(p)
                 \/ (\E c \in Conns : Accept(p, c)) \/ Store(p) \/ Spawn(p)

Aging(p) == CleanerExit(p) \/ CleanerTick(p) \/ (\E k \in SrcMACs : CleanerVisit(p, k))
              \/ CleanerDelete(p) \/ CleanerDone(p)

Flooding(c) == TotalLoad(c) \/ TotalStore(c) \/ LearnMAC(c) \/ ClassLoad(c)
                 \/ ClassStore(c) \/ Lookup(c) \/ FloodBegin(c)
                 \/ (\E k \in Conns, res \in {"ok", "failed", "skip", "block"} : FloodVisit(c, k, res))
                 \/ Return(c)

Forwarding(c) == Flooding(c) \/ ForwardCheck(c)
                   \/ (\E res \in {"ok", "failed", "closed", "block"} : ForwardWrite(c, res))

Processing(c) == Forwarding(c) \/ DropLoad(c) \/ DropStore(c)

Cleanup(c) == CleanupBegin(c) \/ (\E k \in SrcMACs : CleanupVisit(c, k)) \/ CleanupDelete(c)
                \/ CleanupClose(c) \/ ReaderExit(c)

A == <<"a", 9999>>
B == <<"b", 9999>>
C == <<"c", 9999>>

\* One VLAN with three clients attached.  a and c send frames, c may go
\* away at any moment, b only receives.
Init == InitRunning({9999}, {A, B, C}, MaxFrames)

Next ==
  \/ \E c \in {A, C}, f \in Frames : ReadFrame(c, f)
  \/ ReadTimeout(C)
  \/ PeerClose(C)
  \/ ReadError(C)
  \/ \E c \in {A, C} : Processing(c)
  \/ Cleanup(C)

Spec == Init /\ [][Next]_vars

A2 == <<"a", 9998>>

\* Two VLANs.  On 9999 b sends, may go away, and c connects; on 9998 a
\* sends and the aging worker runs as time passes.
InitIso == InitRunning(Ports, {A, B, A2}, MaxFrames)

NextIso ==
  \/ \E c \in {B, A2}, d \in {4, BroadcastMAC} : ReadFrame(c, [src |-> 2, dst |-> d])
  \/ \E c \in {B, A2} : Flooding(c)
  \/ PeerClose(B)
  \/ ReadError(B)
  \/ Cleanup(B)
  \/ Accept(9999, C) \/ Store(9999) \/ Spawn(9999)
  \/ Tick
  \/ CleanerTick(9998) \/ (\E k \in SrcMACs : CleanerVisit(9998, k))
  \/ CleanerDelete(9998) \/ CleanerDone(9998)

SpecIso == InitIso /\ [][NextIso]_vars

\* One VLAN, three clients: a and b send group frames from the same MAC,
\* c sends unicast frames to that MAC.

InitMove == InitRunning({9999}, {A, B, C}, MaxFrames + 1)

NextMove ==
  \/ \E c \in {A, B} : ReadFrame(c, [src |-> 2, dst |-> BroadcastMAC])
  \/ ReadFrame(C, [src |-> 4, dst |-> 2])
  \/ \E c \in {A, B, C} : Forwarding(c)

SpecMove == InitMove /\ [][NextMove]_vars

\* One VLAN shut down while frames are in flight: a has sent from MAC 2, b
\* sends to it, c only receives.
InitStale == InitRunning({9999}, {A, B, C}, MaxFrames)

NextStale ==
  \/ ReadFrame(A, [src |-> 2, dst |-> 2])
  \/ ReadFrame(B, [src |-> 4, dst |-> 2])
  \/ \E c \in {A, B} : Processing(c)
  \/ StopAllBegin \/ StopSignal(9999) \/ StopRange \/ (\E c \in Conns : StopClose(c))
  \/ \E c \in {A, B} : ReaderShutdown(c) \/ ReadClosed(c) \/ Cleanup(c)

SpecStale == InitStale /\ [][NextStale]_vars

\* main: both VLANs are registered, StartAll, clients connect and one sends,
\* then StopAll while the acceptors may still be taking connections.
InitStop == InitWith(Ports, MaxFrames)

NextStop ==
  \/ Control
  \/ \E p \in Ports : Listen(p) \/ AcceptorExit(p) \/ Store(p) \/ Spawn(p)
  \/ Accept(9999, A) \/ Accept(9999, B) \/ Accept(9998, A2)
  \/ \E p \in Ports : CleanerExit(p)
  \/ \E c \in {A, B, A2} : ReaderShutdown(c) \/ ReadClosed(c) \/ Cleanup(c)
  \/ ReadFrame(A, [src |-> 2, dst |-> BroadcastMAC])
  \/ ReadFrame(B, [src |-> 4, dst |-> 2])
  \/ \E c \in {A, B} : Processing(c)

SpecStop == InitStop /\ [][NextStop]_vars

\* The steps of the goroutines of a VLAN that do not wait for a client.
ManagerStep == Stopping \/ StopAllEnd
AcceptorStep(p) == Listen(p) \/ AcceptorExit(p) \/ Store(p) \/ Spawn(p)
ReaderStep(c) == ReaderShutdown(c) \/ ReadClosed(c) \/ Flooding(c) \/ WriteUnblock(c)
                   \/ Cleanup(c)

\* One VLAN and its shutdown, from construction (it may never be started,
\* its bind may fail) or with a attached and waiting in a read.  b connects
\* at any time and may stop reading; a sends a frame to an unknown MAC, so
\* a's reader can block in a write to b.
InitLive == InitWith({9999}, 1) \/ InitRunning({9999}, {A}, 1)

NextLive ==
  \/ StartAll \/ StopAllBegin \/ ManagerStep
  \/ AcceptorStep(9999) \/ Accept(9999, B)
  \/ CleanerExit(9999)
  \/ PeerStall(B)
  \/ ReadFrame(A, [src |-> 2, dst |-> 4])
  \/ \E c \in {A, B} : ReaderStep(c)

\* Every goroutine that can take a step eventually takes one.
FairLive ==
  /\ WF_vars(ManagerStep)
  /\ WF_vars(AcceptorStep(9999))
  /\ WF_vars(CleanerExit(9999))
  /\ \A c \in {A, B} : WF_vars(ReaderStep(c))

SpecLive == InitLive /\ [][NextLive]_vars /\ FairLive

\* SwitchManager.GetVLANs: the registered ports.
GetVLANs == switches
\* SwitchManager.GetStats: "vlan_count" and the keys of the "vlans" map.
VlanCount == Cardinality(switches)
VlanKeys == {<<"vlan", p>> : p \in switches}

\* cleanupConnection of a connection no MAC was learned on.
Teardown(c) == CleanupBegin(c) \/ CleanupClose(c) \/ ReaderExit(c)

\* A caller of the SwitchManager making any sequence of calls, from
\* NewSwitchManager on; a client connects to each started VLAN.
InitMgr == InitWith({}, 0)

NextMgr ==
  \/ \E p \in Ports : AddVLAN(p) \/ RemoveMissing(p) \/ RemoveBegin(p)
  \/ Control \/ RemoveEnd
  \/ \E p \in Ports : AcceptorStep(p) \/ CleanerExit(p)
  \/ Accept(9999, A) \/ Accept(9998, A2)
  \/ \E c \in {A, A2} : ReaderShutdown(c) \/ ReadClosed(c) \/ Teardown(c)

SpecMgr == InitMgr /\ [][NextMgr]_vars

\* One VLAN in which c has sent a broadcast from MAC 4 and its client goes
\* away; a and b send frames to MAC 4 at the same time, so their writes to
\* c can fail, as can a flood's write to c when MAC 4 was not learned.
InitDrop == InitRunning({9999}, {A, B, C}, MaxFrames + 1)

NextDrop ==
  \/ ReadFrame(C, [src |-> 4, dst |-> BroadcastMAC])
  \/ PeerClose(C)
  \/ \E c \in {A, B} : ReadFrame(c, [src |-> 2, dst |-> 4])
  \/ \E c \in {A, B, C} : Processing(c)

SpecDrop == InitDrop /\ [][NextDrop]_vars

\* One VLAN whose readers' writes are followed byte by byte: a sends a
\* broadcast from MAC 2 and c a frame to MAC 2 from MAC 4, which is
\* forwarded to a or, while MAC 2 is unknown, flooded; both can write to b
\* at the same time.
InitWrite == InitRunning({9999}, {A, B, C}, MaxFrames)

NextWrite ==
  \/ ReadFrame(A, [src |-> 2, dst |-> BroadcastMAC])
  \/ ReadFrame(C, [src |-> 4, dst |-> 2])
  \/ \E c \in {A, C} :
       \/ TotalLoad(c) \/ TotalStore(c) \/ LearnMAC(c) \/ ClassLoad(c) \/ ClassStore(c)
       \/ Lookup(c) \/ ForwardCheck(c) \/ FloodBegin(c)
       \/ \E k \in Conns : FloodVisit(c, k, "skip") \/ WriteLength(c, k)
       \/ WriteData(c) \/ Return(c)

SpecWrite == InitWrite /\ [][NextWrite]_vars

\* One VLAN with three clients: c sends byte streams that break the framing
\* and its reader reads them, a sends frames, b only receives.
InitErr == InitRunning({9999}, {A, B, C}, MaxFrames)

NextErr ==
  \/ \E s \in ErrStreams : PeerSend(C, s)
  \/ ReadStream(C)
  \/ Cleanup(C)
  \/ ReadFrame(A, [src |-> 2, dst |-> 4])
  \/ \E c \in {A, C} : Processing(c)

SpecErr == InitErr /\ [][NextErr]_vars

\* One running VLAN and its aging worker as time passes: a sends one frame
\* from MAC 2 and then nothing; the VLAN may be stopped, which closes a
\* while an entry is bound to it.
InitAge == InitRunning({9999}, {A, B}, 1)

NextAge ==
  \/ ReadFrame(A, [src |-> 2, dst |-> 4])
  \/ Flooding(A)
  \/ Tick
  \/ Aging(9999)
  \/ StopAllBegin \/ StopSignal(9999) \/ StopRange \/ (\E c \in Conns : StopClose(c))

\* The ticker fires, the aging worker is scheduled and time passes.
FairAge == WF_vars(Aging(9999)) /\ WF_vars(Tick)

SpecAge == InitAge /\ [][NextAge]_vars /\ FairAge

\* GetStats called again and again (logStatsPeriodically, a test) while the
\* registered VLANs, both or one, carry traffic: on 9999 a sends broadcasts
\* and may go away, on 9998 a sends unicast frames.
InitStats == InitRunning(Ports, {A, B, A2}, MaxFrames) \/ InitRunning({9999}, {A, B}, MaxFrames)

NextStats ==
  \/ GetStatsBegin \/ (\E p \in Ports : GetStatsVisit(p)) \/ GetStatsReturn
  \/ ReadFrame(A, [src |-> 2, dst |-> BroadcastMAC])
  \/ ReadFrame(A2, [src |-> 4, dst |-> 2])
  \/ \E c \in {A, A2} : Flooding(c)
  \/ PeerClose(A) \/ ReadError(A) \/ Cleanup(A)

SpecStats == InitStats /\ [][NextStats]_vars

\* The command line used again and again with -daemon and -stop, one
\* invocation after the other, while the daemons started run and shut down.
InitDaemon == InitWith({}, 0)

NextDaemon ==
  \/ \E i \in Pids : DaemonizeStart(i)
  \/ \E ok \in BOOLEAN : DaemonizeWrite(ok)
  \/ DaemonStopRead \/ DaemonStopSignal \/ DaemonStopRemove
  \/ \E i \in Pids : DaemonCleanup(i) \/ DaemonExit(i)

SpecDaemon == InitDaemon /\ [][NextDaemon]_vars

\* One Connection and a caller that reads, writes and closes it directly
\* while the client sends a stream or sends back what it received.
InitConn == InitRunning({9999}, {A}, 1)

NextConn ==
  \/ ConnReadFrame(A)
  \/ \E f \in WriteFrames, res \in {"ok", "length failed", "data failed"} :
       ConnWriteFrame(A, f, res)
  \/ \E res \in {"none", "failed"} : ConnClose(A, res)
  \/ \E s \in Streams : PeerSend(A, s)
  \/ PeerEcho(A)

SpecConn == InitConn /\ [][NextConn]_vars

\* The closers of a connection: Stop's range, the cleanup of the
\* connection's own reader (after the shutdown signal, after Stop closed the
\* connection, or after the client went away) and direct calls of Close, in
\* any order.
InitClose == InitRunning({9999}, {A, B}, 0)

NextClose ==
  \/ StopAllBegin \/ Stopping \/ StopAllEnd \/ StopPanic(9999)
  \/ AcceptorExit(9999) \/ CleanerExit(9999)
  \/ PeerClose(A) \/ ReadError(A)
  \/ \E c \in {A, B} : ReaderShutdown(c) \/ ReadClosed(c) \/ Teardown(c)
  \/ \E c \in {A, B}, res \in {"none", "failed"} : ConnClose(c, res)

SpecClose == InitClose /\ [][NextClose]_vars

\* ================================================================ claims
\* processFrame has returned for the frame reader c holds.
Returned(c) == reader[c].pc = "ret"
\* k is in c's VLAN's connection set and open.
Healthy(c, k) == k \in connections[PortOf(c)] /\ ~closed[k]
\* The connections m was learned on in c's VLAN.
LearnersOf(c, m) == {learners[PortOf(c)][m][i].conn : i \in 1..Len(learners[PortOf(c)][m])}
\* No entry of c's VLAN's MAC table is bound to c.
NoEntryFor(c) == \A k \in DOMAIN macTable[PortOf(c)] : macTable[PortOf(c)][k].Connection # c
\* The flood of the frame reader c holds has reached every connection that
\* was in the connection set when the range began and is still in it and open.
FloodReached(c) == \A k \in reader[c].snap \ {c} : Healthy(c, k) => k \in reader[c].sent

\* C1: WriteFrame is never called on the connection the frame arrived on,
\* whatever the frame's class; a unicast frame whose destination is learned
\* on its source connection is written to no connection.
NoHairpin ==
  \A c \in Conns : /\ c \notin reader[c].sent
                   /\ reader[c].path = "self" => reader[c].sent = {}

\* C1 witness: one reader has dropped a frame addressed to a MAC learned on
\* itself while another has flooded a frame to both of its peers.
NoHairpinWitness ==
  \E c, d \in Conns : /\ Returned(c) /\ reader[c].path = "self"
                      /\ Returned(d) /\ reader[d].path = "group"
                      /\ reader[d].sent = connections[PortOf(d)] \ {d}
                      /\ Cardinality(reader[d].sent) = 2

\* C3: a unicast frame whose destination the table maps to another
\* connection that forwardFrame finds open is written to that connection and
\* to no other; that connection is one the destination was learned on.
KnownUnicast ==
  \A c \in Conns :
    Returned(c) /\ reader[c].path = "hit" =>
      /\ reader[c].sent = {reader[c].dest}
      /\ reader[c].dest # c
      /\ reader[c].dest \in LearnersOf(c, reader[c].frame.dst)

\* C3 witness: a known unicast frame has been written to its one target while
\* two other connections are open in the VLAN.
KnownUnicastWitness ==
  \E c \in Conns : /\ Returned(c) /\ reader[c].path = "hit" /\ ~reader[c].err
                   /\ Cardinality({k \in Conns : Healthy(c, k)}) = 3

\* C4: a unicast frame whose destination has no entry is written to every
\* connection that is in the connection set and open, except its source.
UnknownUnicastFloods ==
  \A c \in Conns :
    Returned(c) /\ reader[c].path = "miss" => FloodReached(c) /\ c \notin reader[c].sent

\* C4 witness: an unknown unicast frame has been written to both peers.
UnknownUnicastWitness ==
  \E c \in Conns : /\ Returned(c) /\ reader[c].path = "miss"
                   /\ Cardinality(reader[c].sent) = 2
                   /\ \A k \in reader[c].sent : Healthy(c, k)

\* The flood part of C5: a group frame reaches every peer that stays in the
\* set and open, also after a failed write.
GroupFloodReaches ==
  \A c \in Conns : Returned(c) /\ reader[c].path = "group" => FloodReached(c)

\* No reader of port p is inside vs.broadcastFrames++.
BroadcastQuiet(p) ==
  \A c \in Conns : PortOf(c) = p /\ IsGroup(reader[c].frame) => reader[c].pc # "class_st"

\* C5: every group frame (multicast bit set, broadcast included) is written
\* to every other connection that stays in the set and open during the
\* flood, a failed write does not end the iteration, and broadcast_frames
\* has gone up by one for every such frame.
GroupFlood ==
  /\ GroupFloodReaches
  /\ \A p \in Ports : BroadcastQuiet(p) => broadcastFrames[p] = tally[p].broadcast

\* C9: when cleanupConnection(c) has returned, c is not in the connection
\* set, no entry is bound to c and c is closed; no entry is bound to c when
\* cleanup closes it; and none is bound to c at any later time.
CleanupPost ==
  \A c \in Conns :
    /\ reader[c].pc \in {"exit", "done"} =>
         c \notin connections[PortOf(c)] /\ closed[c] /\ NoEntryFor(c)
    /\ reader[c].pc = "sweep" /\ reader[c].todo = {} =>
         c \notin connections[PortOf(c)] /\ NoEntryFor(c)

\* C9 witness: the reader of a connection that a MAC was learned on has exited.
CleanupPostWitness ==
  \E c \in Conns, m \in SrcMACs : reader[c].pc = "done" /\ c \in LearnersOf(c, m)

\* A step of a reader of one VLAN writes to connections of its own VLAN only
\* and leaves the table, the connection set and the counters of every other
\* VLAN as they were.
IsolatedStep ==
  \A c \in Conns :
    reader'[c] # reader[c] =>
      /\ \A k \in reader'[c].sent : PortOf(k) = PortOf(c)
      /\ \A q \in Ports \ {PortOf(c)} :
           /\ macTable'[q] = macTable[q]
           /\ connections'[q] = connections[q]
           /\ totalFrames'[q] = totalFrames[q]
           /\ broadcastFrames'[q] = broadcastFrames[q]
           /\ unicastFrames'[q] = unicastFrames[q]
           /\ droppedFrames'[q] = droppedFrames[q]

\* C2: with two VLANs in one manager, a frame read on a connection of port P
\* is written to connections of port P only, and no step of its processing
\* changes the MAC table or the counters of another port.
VLANIsolation == [][IsolatedStep]_vars

\* C2 witness: a frame of port 9999 has been flooded to both peers, one of
\* them accepted while frames flowed, and port 9998 has processed a frame
\* and learned a MAC of its own.
VLANIsolationWitness ==
  /\ Returned(B) /\ reader[B].sent = {A, C}
  /\ tally[9998].total = 1
  /\ DOMAIN macTable[9998] # {}

\* The last learnMAC of m that has completed on port p.
LastLearn(p, m) == learners[p][m][Len(learners[p][m])]

\* Every learned MAC is bound to the connection it was learned on last, a
\* lookup returns that connection, and a forwarded frame goes to it alone.
LastWriteWinsStep ==
  /\ \A m \in SrcMACs :
       Len(learners'[9999][m]) > 0 =>
         /\ m \in DOMAIN macTable'[9999]
         /\ macTable'[9999][m].Connection = LastLearn(9999, m).conn'
  /\ \A c \in Conns :
       /\ reader[c].pc = "lookup" /\ reader'[c].pc = "isclosed" =>
            reader'[c].dest = LastLearn(9999, reader[c].frame.dst).conn
       /\ reader'[c].pc = "ret" /\ reader'[c].path = "hit" =>
            reader'[c].sent = {reader'[c].dest}

\* C7: after m was learned on A and then on B, the table has one entry for
\* m, bound to B, and the next unicast frame to m from a third connection is
\* written to B and to no other connection.
LastWriteWins == [][LastWriteWinsStep]_vars

\* C7 witness: m was learned on a and then on b, and c's frame to m has
\* been written to b alone.
LastWriteWinsWitness ==
  /\ Len(learners[9999][2]) = 2
  /\ learners[9999][2][1].conn = A
  /\ learners[9999][2][2].conn = B
  /\ Returned(C) /\ reader[C].path = "hit" /\ reader[C].sent = {B}

\* C6: a unicast frame whose destination is bound to a connection that is
\* closed when the entry is looked up is flooded to every other open
\* connection, as a frame to an unknown destination is.
StaleTargetFloods ==
  \A c \in Conns : Returned(c) /\ reader[c].path = "stale" => FloodReached(c)

\* s's reader has entered cleanupConnection(s).
CleanedUp(s) == reader[s].pc \in {"cleanup", "sweep", "evict", "exit", "done"}

\* C8: a binding m -> s that learnMAC has completed is what a lookup of m
\* finds, whatever the other readers, the cleanups of other connections and
\* the aging passes do, until m is learned on another connection, s is
\* cleaned up, or the binding is older than the timeout.
BindingsPersist ==
  \A p \in Ports, m \in SrcMACs :
    (/\ Len(learners[p][m]) > 0
     /\ ~CleanedUp(LastLearn(p, m).conn)
     /\ now - LastLearn(p, m).at <= MacTimeout)
    => /\ m \in DOMAIN macTable[p]
       /\ macTable[p][m].Connection = LastLearn(p, m).conn

\* The workers of port p have returned.
WorkersDone(p) ==
  /\ listener[p].pc \in {"none", "done"}
  /\ cleaner[p].pc \in {"none", "done"}
  /\ \A c \in Conns : PortOf(c) = p => reader[c].pc \in {"idle", "done"}

\* C10: once StopAll has returned, every connection that was accepted is
\* closed and its reader has exited, and the acceptor and the aging worker
\* of every VLAN have exited, also when a connection was accepted while the
\* shutdown signal was given.
StopPost ==
  mgr.pc = "stopped" =>
    /\ \A p \in switches : WorkersDone(p)
    /\ \A c \in Conns : peer[c] # "away" => closed[c] /\ reader[c].pc = "done"

\* C10 witness: StopAll has returned and a connection of each VLAN was
\* accepted, one of them stored after its VLAN's shutdown signal.
StopPostWitness ==
  /\ mgr.pc = "stopped"
  /\ peer[A] = "up" /\ peer[A2] = "up"
  /\ tally[9999].total = 1

\* Stop has been called on a VLAN that was not stopped before.
StopCalled == mgr.pc = "stopall" /\ mgr.op = "StopAll" /\ \A p \in switches : ~shutdown[p]

\* C11: under fair scheduling a call of Stop returns, whether the VLAN was
\* never started, failed to bind, has readers waiting in a read or has
\* readers blocked in a write to a peer that does not read.
StopTerminates == StopCalled ~> (mgr.pc = "stopped")

\* C11 witness: the shutdown signal has been given while a reader is blocked
\* in a write to a connection that is still open.
StopTerminatesWitness ==
  /\ shutdown[9999]
  /\ mgr.pc \in {"stop_range", "stop_close"}
  /\ \E c \in {A, B} : reader[c].pc = "blocked" /\ ~closed[reader[c].dest]

\* ------------------------------------------------------- manager claims
\* The state of the VirtualSwitch registered for port p.
VLANState(p) == <<shutdown[p], wg[p], connections[p], macTable[p], totalFrames[p],
                  broadcastFrames[p], unicastFrames[p], droppedFrames[p], listener[p],
                  cleaner[p]>>
\* What list-VLANs and get-stats show of the registry.
Registry == <<GetVLANs, VlanCount, VlanKeys>>
\* The step belongs to the named call: the caller moves, or the call is the
\* one in progress.
CallStep(op) == mgr' # mgr /\ mgr'.op = op

\* C12: a second StopAll, made after the first has returned, completes
\* normally.
StopAllIdempotent == mgr.op = "StopAll" => mgr.pc # "panic"

\* C13: from the moment StartAll or StopAll is entered until the next call,
\* GetVLANs, vlan_count and the per-VLAN keys of GetStats stay what they were.
RegistryKept == [][mgr'.op \in {"StartAll", "StopAll"} => Registry' = Registry]_vars

\* C13 witness: StopAll has returned with both VLANs registered, one of them
\* started and stopped with a client attached.
RegistryKeptWitness ==
  /\ mgr.pc = "stopped" /\ mgr.op = "StopAll"
  /\ GetVLANs = Ports /\ VlanCount = 2
  /\ closed[A] /\ shutdown[9998]

\* A step of AddVLAN(p): the duplicate error and nothing changed when p is
\* registered; success and exactly p added when it is not; no other VLAN is
\* touched.
AddVLANStep ==
  \A p \in Ports :
    CallStep("AddVLAN") /\ mgr'.arg = p =>
      /\ IF p \in switches
           THEN /\ mgr'.err = "duplicate"
                /\ switches' = switches
                /\ VLANState(p)' = VLANState(p)
           ELSE /\ mgr'.err = "none"
                /\ switches' = switches \cup {p}
      /\ \A q \in Ports \ {p} : VLANState(q)' = VLANState(q)

\* C14: AddVLAN of a registered port returns the duplicate error and leaves
\* the registry and the port's VirtualSwitch unchanged; AddVLAN of an absent
\* port succeeds and adds exactly that port.
AddVLANContract == [][AddVLANStep]_vars

\* C14 witness: AddVLAN of a started VLAN with a client attached has
\* returned the duplicate error, after the other port was added and removed.
AddVLANWitness ==
  /\ mgr.op = "AddVLAN" /\ mgr.arg = 9999 /\ mgr.err = "duplicate"
  /\ switches = {9999}
  /\ wg[9999] = 3 /\ connections[9999] = {A}
  /\ listener[9998].pc = "done"

\* A step of RemoveVLAN: it does not panic; of an absent port, the not-found
\* error and nothing changed; of a registered port, success, the port gone
\* and the other ports kept.
RemoveVLANStep ==
  CallStep("RemoveVLAN") =>
    /\ mgr'.pc # "panic"
    /\ mgr.pc \in {"init", "running", "stopped"} /\ mgr'.arg \notin switches =>
         mgr'.err = "notfound" /\ switches' = switches
           /\ \A q \in Ports : VLANState(q)' = VLANState(q)
    /\ mgr.pc = "stopall" /\ mgr'.pc \in {"init", "running", "stopped"} =>
         mgr'.err = "none" /\ GetVLANs' = GetVLANs \ {mgr.arg}

\* C15: RemoveVLAN of an absent port returns the not-found error and changes
\* nothing; RemoveVLAN of a registered port returns success, and afterwards
\* the port is absent from GetVLANs while all other ports remain.
RemoveVLANContract == [][RemoveVLANStep]_vars

\* C16: RemoveVLAN of a registered port, whether never started, started or
\* stopped before, completes normally, and when the port is deleted the
\* VLAN's workers have exited and its connections are closed.
RemoveStopsFirst ==
  mgr.op = "RemoveVLAN" =>
    /\ mgr.pc # "panic"
    /\ mgr.pc = "stopall" /\ mgr.todo = {} =>
         /\ WorkersDone(mgr.arg)
         /\ \A c \in Conns : PortOf(c) = mgr.arg /\ peer[c] # "away" => closed[c]

\* ---------------------------------------------------- connection claims
\* The four counters of connection c.
ConnCounters(c) == <<link[c].FramesSent, link[c].FramesReceived, link[c].BytesSent,
                     link[c].BytesReceived>>
\* The step is a direct call of op on c.
ConnCall(c, op) == link'[c].calls = link[c].calls + 1 /\ link'[c].ret.op = op

\* A step of the connections: closed is never reset, the socket has been
\* closed once if the connection is closed and never otherwise, and a Close
\* of a closed connection returns nil.
CloseOnceStep ==
  \A c \in Conns :
    /\ closed[c] => closed'[c]
    /\ link'[c].closes = IF closed'[c] THEN 1 ELSE 0
    /\ ConnCall(c, "Close") => closed'[c]
    /\ ConnCall(c, "Close") /\ closed[c] => link'[c].ret.err = "none"

\* C17: a Connection starts Open, closed never goes from true to false, and
\* over any number of Close calls, from Stop, from the reader's cleanup and
\* from direct callers in any order, the socket is closed exactly once and
\* every call after the first returns no error.
CloseOnce ==
  /\ \A c \in Conns : ~closed[c] /\ link[c].closes = 0
  /\ [][CloseOnceStep]_vars

\* C17 witness: a was closed by Stop's range, then by its reader's cleanup,
\* then twice by a direct caller, b first by a direct caller whose
\* c.Conn.Close() failed; StopAll has returned.
CloseOnceWitness ==
  /\ mgr.pc = "stopped"
  /\ reader[A].pc = "done" /\ reader[B].pc = "done"
  /\ link[A].calls = 2 /\ link[A].ret.op = "Close" /\ link[A].closes = 1
  /\ link[B].ret.err = "failed" /\ link[B].closes = 1

\* The call left the socket, the streams and the counters of c as they were.
Untouched(c) ==
  /\ link'[c].ios = link[c].ios /\ link'[c].closes = link[c].closes
  /\ link'[c].rx = link[c].rx /\ link'[c].tx = link[c].tx
  /\ ConnCounters(c)' = ConnCounters(c)

\* A ReadFrame or WriteFrame of a closed connection fails with the closed
\* error and touches nothing.
AfterCloseStep ==
  \A c \in Conns :
    closed[c] /\ (ConnCall(c, "ReadFrame") \/ ConnCall(c, "WriteFrame")) =>
      link'[c].ret.err = "closed" /\ Untouched(c)

\* The same for ReadFrame and for WriteFrame of a frame that is not nil.
AfterCloseFrameStep ==
  \A c \in Conns :
    closed[c] /\ (ConnCall(c, "ReadFrame")
                    \/ (ConnCall(c, "WriteFrame") /\ ~link'[c].ret.frame.nil)) =>
      link'[c].ret.err = "closed" /\ Untouched(c)

\* C18 as stated: any ReadFrame or WriteFrame call that starts after Close
\* has returned fails with the closed error, does no socket I/O and leaves
\* the four counters unchanged.
ClosedCallsFail == [][AfterCloseStep]_vars

\* C18 amended: any ReadFrame call and any WriteFrame call with a frame that
\* is not nil that starts after Close has returned fails with the closed
\* error, does no socket I/O and leaves the four counters unchanged; a
\* WriteFrame(nil) fails with the nil error, before and after Close.
ClosedFrameCallsFail ==
  [][/\ AfterCloseFrameStep
     /\ \A c \in Conns : ConnCall(c, "WriteFrame") /\ link'[c].ret.frame.nil =>
          link'[c].ret.err = "nil" /\ Untouched(c)]_vars

\* C18 witness: with bytes waiting on the stream the connection was closed,
\* then read, then written with a frame of the largest length; the write
\* returned the closed error and the socket was never touched.
ClosedFrameCallsWitness ==
  /\ closed[A] /\ link[A].calls = 3 /\ link[A].closes = 1
  /\ link[A].ret.op = "WriteFrame" /\ link[A].ret.err = "closed"
  /\ Len(link[A].ret.frame.Raw) = MaxFrameLen
  /\ link[A].rx # <<>> /\ link[A].ios = 0

\* The stream rx begins with a whole length prefix and n is its value (the
\* first two bytes, the high half, are zero for every n below 65536).
PrefixIs(rx, n) == Len(rx) >= 4 /\ rx[1] = 0 /\ rx[2] = 0 /\ rx[3] * 256 + rx[4] = n

\* ReadFrame must return a frame from rx: a whole prefix with a value L in
\* 14..1518, L bytes after it, bytes 6..11 of them not all zero.
Acceptable(rx) ==
  /\ Len(rx) >= 4
  /\ LET L == rx[3] * 256 + rx[4]
     IN /\ PrefixIs(rx, L)
        /\ L >= 14 /\ L <= 1518
        /\ Len(rx) >= 4 + L
        /\ \E i \in 11..16 : rx[i] # 0

\* A ReadFrame of an open connection returns a frame exactly when the stream
\* is acceptable; the frame is the L bytes after the prefix and
\* FramesReceived and BytesReceived go up by 1 and L; otherwise no frame is
\* returned and no counter changes.
ReadFrameStep ==
  \A c \in Conns :
    ConnCall(c, "ReadFrame") /\ ~closed[c] =>
      LET rx == link[c].rx
          L == rx[3] * 256 + rx[4]
      IN /\ (link'[c].ret.err = "none") <=> Acceptable(rx)
         /\ link'[c].FramesSent = link[c].FramesSent
         /\ link'[c].BytesSent = link[c].BytesSent
         /\ IF Acceptable(rx)
              THEN /\ link'[c].ret.frame.Raw = SubSeq(rx, 5, 4 + L)
                   /\ link'[c].FramesReceived = link[c].FramesReceived + 1
                   /\ link'[c].BytesReceived = link[c].BytesReceived + L
              ELSE /\ link'[c].ret.frame = NilFrame
                   /\ link'[c].FramesReceived = link[c].FramesReceived
                   /\ link'[c].BytesReceived = link[c].BytesReceived

\* C19: ReadFrame on an open connection returns a frame if and only if the
\* prefix L is in 14..1518, L body bytes follow and the source MAC is not all
\* zero; for every other stream it returns an error and no frame, and
\* FramesReceived and BytesReceived change, by 1 and L, on success only.
ReadFrameContract == [][ReadFrameStep]_vars

\* C19 witness: two frames sent back to back were read, 14 and 15 bytes,
\* and a third ReadFrame met the end of the stream.
ReadFrameWitness ==
  /\ link[A].FramesReceived = 2 /\ link[A].BytesReceived = 29
  /\ link[A].calls = 3 /\ link[A].ret.op = "ReadFrame" /\ link[A].ret.err = "length"

\* The 4-byte big-endian encoding of n, n below 65536.
BigEndian(n) == <<0, 0, n \div 256, n % 256>>

\* A frame the round trip is claimed for.
Sendable(f) ==
  /\ ~f.nil /\ Len(f.Raw) >= 14 /\ Len(f.Raw) <= 1518
  /\ f.SrcMAC # <<0, 0, 0, 0, 0, 0>>

\* A successful WriteFrame of a sendable frame appends the encoding of its
\* length and its bytes to the socket and counts it; a ReadFrame of a stream
\* that begins with those bytes returns the same frame.
RoundTripStep ==
  \A c \in Conns :
    /\ ConnCall(c, "WriteFrame") /\ link'[c].ret.err = "none" /\ Sendable(link'[c].ret.frame) =>
         LET f == link'[c].ret.frame
         IN /\ link'[c].tx = link[c].tx \o BigEndian(Len(f.Raw)) \o f.Raw
            /\ link'[c].FramesSent = link[c].FramesSent + 1
            /\ link'[c].BytesSent = link[c].BytesSent + Len(f.Raw)
    /\ ConnCall(c, "ReadFrame") /\ ~closed[c] =>
         \A f \in WriteFrames :
           (/\ Sendable(f)
            /\ Len(link[c].rx) >= 4 + Len(f.Raw)
            /\ SubSeq(link[c].rx, 1, 4 + Len(f.Raw)) = BigEndian(Len(f.Raw)) \o f.Raw)
           => /\ link'[c].ret.err = "none"
              /\ link'[c].ret.frame.Raw = f.Raw
              /\ link'[c].ret.frame.DestMAC = f.DestMAC
              /\ link'[c].ret.frame.SrcMAC = f.SrcMAC
              /\ link'[c].ret.frame.EtherType = f.EtherType

\* C20: for every frame of length L in 14..1518 with a non-zero source MAC,
\* a successful WriteFrame emits the 4-byte big-endian encoding of L and
\* then the L frame bytes and adds 1 to FramesSent and L to BytesSent, and
\* ReadFrame applied to those bytes returns a frame with the same raw bytes,
\* destination, source and EtherType.
RoundTrip == [][RoundTripStep]_vars

\* C20 witness: a frame of 1518 bytes was written, came back from the
\* client, which sent nothing of its own, and was read.
RoundTripWitness ==
  /\ budget = 1
  /\ link[A].FramesSent = 1 /\ link[A].BytesSent = MaxFrameLen
  /\ link[A].FramesReceived = 1 /\ link[A].BytesReceived = MaxFrameLen
  /\ link[A].ret.op = "ReadFrame" /\ link[A].ret.frame = ParseEthernetFrame(Body(MaxFrameLen, 4))
  /\ link[A].rx = <<>> /\ link[A].tx = <<>>

\* A reader leaves its read loop, other than with a frame, on shutdown, on a
\* closed connection or on a read error that is not a timeout (the client
\* is gone).
IdleStep ==
  \A c \in Conns :
    reader[c].pc = "loop" /\ reader'[c].pc \notin {"loop", "total_ld"} =>
      shutdown[PortOf(c)] \/ closed[c] \/ peer[c] = "gone"

\* C30: when the 1-second read deadline expires on a connection with no
\* bytes received, the reader re-checks the shutdown flag and reads again;
\* the connection stays open and in the connection set, and the reader
\* exits only on a non-timeout read error or on shutdown.
IdleSurvives == [][IdleStep]_vars

\* A frame read from c is still in use: c's reader is processing it, or a
\* direct caller of ReadFrame holds the frame it was returned.
InUse(c) ==
  \/ reader[c].frame # NoFrame
  \/ link[c].ret.op = "ReadFrame" /\ link[c].ret.err = "none"

\* C26: every buffer ReadFrame takes from the frame-buffer pool is returned
\* to it exactly once: never more buffers are returned than were taken, and
\* when no frame is in use (each was forwarded, flooded or dropped, or
\* ReadFrame failed after taking the buffer) all of them have been returned.
BuffersReturned ==
  /\ pool.puts <= pool.gets
  /\ (\A c \in Conns : ~InUse(c)) => pool.puts = pool.gets

\* The statistics counters of the VLAN on port p, as stored.
Counter(p) ==
  [total |-> totalFrames[p], broadcast |-> broadcastFrames[p],
   unicast |-> unicastFrames[p], dropped |-> droppedFrames[p]]

\* In every step the stored value of each counter does not decrease, and it
\* goes up by exactly the increments that complete in the step.
CountersStep ==
  \A p \in Ports : \A k \in {"total", "broadcast", "unicast", "dropped"} :
    /\ Counter(p)'[k] >= Counter(p)[k]
    /\ Counter(p)'[k] - Counter(p)[k] = tally'[p][k] - tally[p][k]

\* C25: each statistics counter of a VLAN is race-free and monotonic: under
\* any interleaving of concurrent readers its stored value never decreases
\* from one step to the next and no increment is lost.
CountersRaceFree == [][CountersStep]_vars

\* No processFrame call is in progress on port p: no reader of the VLAN
\* holds a frame.
Quiescent(p) == \A c \in Conns : PortOf(c) = p => reader[c].frame = NoFrame

\* C24: at every quiescent moment, after any number of frames processed by
\* any number of concurrent readers of one VLAN, total_frames equals
\* broadcast_frames + unicast_frames and equals the number of frames passed
\* to processFrame.
CountersAgree ==
  \A p \in Ports :
    Quiescent(p) => /\ totalFrames[p] = broadcastFrames[p] + unicastFrames[p]
                    /\ totalFrames[p] = tally[p].total

\* Reader c has met a failed write for the frame it holds or is counting
\* the drop: forwardFrame returned WriteFrame's error, or floodFrame
\* collected one.
WriteFailed(c) ==
  reader[c].err \/ reader[c].errors # {} \/ reader[c].pc \in {"drop_ld", "drop_st"}

\* After a failed write the source stays open and in the connection set;
\* when processFrame has returned, its reader counts the drop of a unicast
\* frame, which adds one to dropped_frames, and is back at the head of its
\* loop.
WriteFailStep ==
  \A c \in Conns :
    WriteFailed(c) =>
      /\ closed'[c] = closed[c]
      /\ (c \in connections'[PortOf(c)]) = (c \in connections[PortOf(c)])
      /\ reader[c].pc = "ret" /\ reader'[c] # reader[c] =>
           reader'[c].pc = IF reader[c].err THEN "drop_ld" ELSE "loop"
      /\ reader[c].pc = "drop_st" /\ reader'[c] # reader[c] =>
           /\ reader'[c].pc = "loop"
           /\ droppedFrames'[PortOf(c)] = droppedFrames[PortOf(c)] + 1

\* C23: a failed write to a destination never tears down the source: when
\* WriteFrame to the learned unicast destination or to a flood target
\* returns an error, the source stays open and in the connection set, its
\* reader continues with the next frame, and in the unicast case
\* dropped_frames goes up by one.
SourceSurvives == [][WriteFailStep]_vars

\* The bytes of a frame the readers can have written.
IsFrameBody(b) == \E f \in [src : SrcMACs, dst : DstMACs \cup UnicastMACs] : b = RawOf(f)

\* The byte stream tx is a sequence of whole records, each a 4-byte
\* big-endian length followed by the frame of that length, at the end of
\* which the prefix of the record being written may stand alone.
RECURSIVE WholeRecords(_)
WholeRecords(tx) ==
  \/ tx = <<>>
  \/ Len(tx) >= 4 /\ tx[1] = 0 /\ tx[2] = 0 /\
       LET n == tx[3] * 256 + tx[4]
       IN \/ Len(tx) = 4
          \/ /\ Len(tx) >= 4 + n
             /\ IsFrameBody(SubSeq(tx, 5, 4 + n))
             /\ WholeRecords(SubSeq(tx, 5 + n, Len(tx)))

\* C21: writes to one destination are serialized: when two readers forward
\* frames to the same connection concurrently, the byte stream of the
\* destination is a sequence of whole records, each length prefix followed
\* at once by its own frame, never one frame's prefix or body between
\* another's.
WritesSerialized == \A d \in Conns : WholeRecords(link[d].tx)

\* Reader c's ReadFrame fails in this step with a protocol error: it reads
\* from a stream that does not begin with an acceptable record.
ProtocolError(c) ==
  reader[c].pc = "loop" /\ link'[c].ios # link[c].ios /\ ~Acceptable(link[c].rx)

\* The step of c's reader leaves every other connection alone: open or
\* closed as before, in the connection set as before, its reader where it was.
OthersUntouched(c) ==
  \A k \in Conns \ {c} :
    /\ closed'[k] = closed[k]
    /\ (k \in connections'[PortOf(k)]) = (k \in connections[PortOf(k)])
    /\ reader'[k] = reader[k]
    /\ link'[k] = link[k]

\* On a protocol error the reader of c turns to the cleanup with nothing
\* learned, counted or written; no step of the cleanup touches another
\* connection; and when the cleanup has closed c, c is out of the
\* connection set and no entry is bound to it.
ContainedStep ==
  \A c \in Conns :
    /\ ProtocolError(c) =>
         /\ reader'[c] = [reader[c] EXCEPT !.pc = "cleanup"]
         /\ macTable' = macTable /\ counters' = counters /\ learners' = learners
         /\ connections' = connections /\ closed' = closed
         /\ OthersUntouched(c)
    /\ CleanedUp(c) /\ reader'[c] # reader[c] => OthersUntouched(c)
    /\ reader'[c].pc \in {"exit", "done"} =>
         closed'[c] /\ c \notin connections'[PortOf(c)] /\ NoEntryFor(c)'

\* C22: a per-connection protocol error is contained: when ReadFrame on c
\* fails with a framing violation (prefix 0 or above 1518), a short read or
\* a parse or validation failure, c is cleaned up and closed, nothing of the
\* record is learned or forwarded, and every other connection of the VLAN
\* stays open, stays in the connection set and keeps its reader running.
ErrorContained == [][ContainedStep]_vars

\* C22 witness: c sent a good frame and then the prefix 2048; its reader has
\* exited and c is closed and out of the set, while a and b are open and in
\* the set, a's reader has processed a frame of its own and reads again.
ErrorContainedWitness ==
  /\ reader[C].pc = "done" /\ closed[C] /\ C \notin connections[9999]
  /\ link[C].FramesReceived = 1 /\ link[C].ios = 3
  /\ ~closed[A] /\ ~closed[B] /\ {A, B} \subseteq connections[9999]
  /\ reader[A].pc = "loop" /\ reader[B].pc = "loop"
  /\ tally[9999].total = 2

\* The aging pass of port p ends in this step, and no MAC was learned while
\* it ran.
PassEnds(p) ==
  /\ cleaner[p].pc = "range" /\ cleaner'[p].pc = "wait"
  /\ learners[p] = cleaner[p].seen.learns

\* An entry is to be removed by a pass that began at time t: it is older
\* than the timeout then, or its connection was closed then.
ToRemove(entry, t, shut) == t - entry.LearnedAt > MacTimeout \/ entry.Connection \in shut

\* At the end of a pass with no concurrent learn, of the entries the table
\* had when the pass began, those to be removed are gone, and the others are
\* there unchanged unless their connection was closed or cleaned up while
\* the pass ran; nothing was added.
PassStep ==
  \A p \in Ports :
    PassEnds(p) =>
      LET seen == cleaner[p].seen
          t == cleaner[p].now
      IN /\ DOMAIN macTable'[p] \subseteq DOMAIN seen.table
         /\ \A k \in DOMAIN seen.table :
              /\ ToRemove(seen.table[k], t, seen.closed) => k \notin DOMAIN macTable'[p]
              /\ (/\ ~ToRemove(seen.table[k], t, seen.closed)
                  /\ ~closed[seen.table[k].Connection]
                  /\ ~CleanedUp(seen.table[k].Connection))
                 => k \in DOMAIN macTable'[p] /\ macTable'[p][k] = seen.table[k]

\* An entry of a source that has stopped sending, learned long enough before
\* the end of the time observed to grow older than the timeout.
Silent(p, m) ==
  /\ m \in DOMAIN macTable[p]
  /\ macTable[p][m].LearnedAt + MacTimeout < MaxTime
  /\ budget = 0
  /\ \A c \in Conns : PortOf(c) = p => reader[c].pc \notin {"total_ld", "total_st", "learn"}

\* C27: an aging pass at time now with no concurrent learn removes exactly
\* the entries with now - learned-at > timeout or whose connection is closed
\* and keeps every other entry unchanged; while the VLAN is running the
\* aging worker makes such a pass on every tick, so an entry whose source
\* stops sending is eventually removed.
AgingPass ==
  /\ [][PassStep]_vars
  /\ \A p \in Ports, m \in SrcMACs :
       Silent(p, m) ~> (m \notin DOMAIN macTable[p] \/ shutdown[p])

\* C27 witness: a pass that began at time 2 has removed the entry learned at
\* time 0 and the VLAN is still running.
AgingPassWitness ==
  /\ cleaner[9999].pc = "wait" /\ ~shutdown[9999]
  /\ now = MacTimeout + 1
  /\ Len(learners[9999][2]) = 1 /\ learners[9999][2][1].at = 0
  /\ 2 \notin DOMAIN macTable[9999]

\* The sum of f[k] over the keys k in S.
RECURSIVE SumOver(_, _)
SumOver(S, f) ==
  IF S = {} THEN 0
  ELSE LET k == CHOOSE x \in S : TRUE IN f[k] + SumOver(S \ {k}, f)

\* The map m, returned by SwitchManager.GetStats for the registered ports
\* R, has one entry "vlan_<port>" per registered port, vlan_count is their
\* number, and each total is the sum of the per-VLAN values.
StatsSum(m, R) ==
  LET key(p) == <<"vlan", p>>
      per(field) == [k \in DOMAIN m.vlans |-> m.vlans[k][field]]
      sum(field) == SumOver(DOMAIN m.vlans, per(field))
  IN /\ DOMAIN m.vlans = {key(p) : p \in R}
     /\ m.vlan_count = Cardinality(R)
     /\ m.total_frames = sum("total_frames")
     /\ m.broadcast_frames = sum("broadcast_frames")
     /\ m.unicast_frames = sum("unicast_frames")
     /\ m.dropped_frames = sum("dropped_frames")
     /\ m.total_connections = sum("connections")
     /\ m.total_mac_entries = sum("mac_entries")

\* C28: SwitchManager.GetStats returns, for each of total_frames,
\* broadcast_frames, unicast_frames, dropped_frames, total_connections and
\* total_mac_entries, the sum of the per-VLAN values over all registered
\* VLANs, vlan_count equal to the number of registered ports, and a vlans
\* map with exactly one key vlan_<port> per registered port.
GetStatsSums == stats.pc = "done" => StatsSum(stats.ret, switches)

\* C28 witness: with two VLANs registered, each with a learned MAC and a
\* frame counted, GetStats has returned totals of 2 frames, one broadcast,
\* one unicast, 2 MAC entries and 3 connections.
GetStatsWitness ==
  /\ stats.pc = "done" /\ switches = Ports
  /\ stats.ret.total_frames = 2 /\ stats.ret.broadcast_frames = 1
  /\ stats.ret.unicast_frames = 1 /\ stats.ret.total_mac_entries = 2
  /\ stats.ret.total_connections = 3 /\ stats.ret.vlan_count = 2
  /\ stats.ret.vlans[<<"vlan", 9998>>].total_frames = 1

\* C29: in every state in which a daemon process started by Daemonize is
\* still running (Daemonize has returned and the process has not been
\* signalled), the PID file exists and contains that process's PID, under
\* all sequences of -daemon, -stop and the daemons' shutdown cleanup, also
\* when a new daemon is started while a stopped one is still shutting down.
PidFileNamesDaemon == \A i \in Pids : host.proc[i] = "running" => host.pidFile = i

\* When processFrame has returned for a frame one of whose writes failed, on
\* the unicast path (err) or on the flood path (errors), the reader turns to
\* the increment of dropped_frames.
DropCountedStep ==
  \A c \in Conns :
    (/\ reader[c].pc = "ret"
     /\ reader[c].err \/ reader[c].errors # {}
     /\ reader'[c] # reader[c])
    => reader'[c].pc = "drop_ld"

\* C31: whenever a write to a destination fails while a frame is forwarded,
\* on the unicast path or on the flood path, the VLAN's dropped_frames
\* counter is incremented for that frame.
FailedWriteCounted == [][DropCountedStep]_vars

\* One VLAN with three clients attached.  b's client stops reading and never
\* closes; c sends a broadcast from MAC 4; a sends a broadcast and a frame to
\* MAC 4, so a's flood has b and c as targets and a's second frame is for c.
InitStall == InitRunning({9999}, {A, B, C}, MaxFrames + 1)

NextStall ==
  \/ PeerStall(B)
  \/ ReadFrame(C, [src |-> 4, dst |-> BroadcastMAC])
  \/ ReadFrame(A, [src |-> 2, dst |-> BroadcastMAC])
  \/ ReadFrame(A, [src |-> 2, dst |-> 4])
  \/ Flooding(C)
  \/ Forwarding(A)

\* The readers of a and c take the steps they can take.
FairStall == WF_vars(Forwarding(A)) /\ WF_vars(Flooding(C))

SpecStall == InitStall /\ [][NextStall]_vars /\ FairStall

\* The reader of s is inside a WriteFrame to d that does not return.
BlockedOn(s, d) == reader[s].pc = "blocked" /\ reader[s].dest = d

\* C32: when a write of s's flood to d blocks, every other target that the
\* flood has not yet visited is still written to, and the reader of s gets
\* back to its read loop, where its later frames are taken and forwarded.
SlowDestinationContained ==
  \A s \in Conns, d \in Conns :
    /\ \A e \in Conns \ {s, d} :
         (BlockedOn(s, d) /\ e \in reader[s].todo /\ ~closed[e]) ~> (e \in reader[s].sent)
    /\ BlockedOn(s, d) ~> (reader[s].pc = "loop")

\* One VLAN with three clients attached.  a sends a broadcast from MAC 2 and
\* its client closes the socket at any moment; b's client may stop reading;
\* c sends a frame to MAC 2, before or after a's cleanup.
InitGone == InitRunning({9999}, {A, B, C}, MaxFrames)

NextGone ==
  \/ PeerClose(A) \/ PeerStall(B)
  \/ ReadFrame(A, [src |-> 2, dst |-> BroadcastMAC])
  \/ ReadFrame(C, [src |-> 4, dst |-> 2])
  \/ ReadError(A) \/ Cleanup(A)
  \/ \E c \in {A, C} : Forwarding(c)

\* The readers of a and c take the steps they can take.
FairGone ==
  /\ WF_vars(ReadError(A) \/ Forwarding(A) \/ Cleanup(A))
  /\ WF_vars(Forwarding(C))

SpecGone == InitGone /\ [][NextGone]_vars /\ FairGone

\* cleanupConnection(c) has returned.
CleanupReturned(c) == reader[c].pc \in {"exit", "done"}

\* c is out of its VLAN: not in the connection set, bound to no MAC.
Detached(c) ==
  /\ c \notin connections[PortOf(c)]
  /\ \A m \in DOMAIN macTable[PortOf(c)] : ~BoundTo(macTable[PortOf(c)][m], c)

\* Once cleanupConnection(c) has returned, c stays detached and a WriteFrame
\* on c writes nothing: it returns the closed error.
GoneStep ==
  \A c \in Conns :
    CleanupReturned(c) =>
      /\ Detached(c)' /\ closed'[c]
      /\ \A s \in Conns :
           c \in reader'[s].sent \ reader[s].sent
             => reader'[s].err \/ c \in reader'[s].errors

\* C33: after the client of c has closed its socket the reader of c runs
\* cleanupConnection to its end, and from then on c is in neither the
\* connection set nor the MAC table and nothing is written to c.
DisconnectCleanup ==
  /\ \A c \in Conns : (peer[c] = "gone") ~> CleanupReturned(c)
  /\ [][GoneStep]_vars

\* A caller of the SwitchManager that adds a VLAN, calls StartAll any number
\* of times and StopAll; a client connects to the started VLAN.
InitCensus == InitWith({}, 0)

NextCensus ==
  \/ AddVLAN(9999)
  \/ StartAll \/ StartAllAgain \/ StopAllBegin \/ ManagerStep
  \/ AcceptorStep(9999) \/ CleanerExit(9999) \/ ExtraListen(9999) \/ ExtraCleanerExit(9999)
  \/ Accept(9999, A)
  \/ ReaderShutdown(A) \/ ReadClosed(A) \/ Teardown(A)

SpecCensus == InitCensus /\ [][NextCensus]_vars

\* The listenOnPort goroutines of p that have not returned.
Acceptors(p) == (IF Free(listener[p]) THEN 0 ELSE 1) + extra[p].acceptors

\* The macTableCleanup goroutines of p that have not returned.
AgingWorkers(p) == (IF Free(cleaner[p]) THEN 0 ELSE 1) + extra[p].cleaners

\* handleConnection(c) is running, or the acceptor has stored c and is about
\* to spawn it.
HasReader(c) ==
  \/ reader[c].pc \notin {"idle", "done"}
  \/ listener[PortOf(c)].pc = "spawn" /\ listener[PortOf(c)].conn = c

\* C34: every VLAN has at most one acceptor and at most one aging worker, and
\* every connection of its connection set has its reader (spawned after the
\* connection was stored).
WorkerCensus ==
  \A p \in Ports :
    /\ Acceptors(p) <= 1
    /\ AgingWorkers(p) <= 1
    /\ \A c \in connections[p] : HasReader(c)

\* net.Listen of VLAN p fails in this step.
BindFails(p) == listener[p].pc = "listen" /\ listener'[p].pc = "done"

\* When the bind of a VLAN fails and StartAll is the caller's last call, that
\* call's result is an error, and the workers of the other VLANs are as they
\* were.
StartupErrorStep ==
  \A p \in Ports :
    BindFails(p) /\ mgr.op = "StartAll"
      => /\ mgr'.err # "none"
         /\ \A q \in Ports \ {p} : listener'[q] = listener[q] /\ cleaner'[q] = cleaner[q]

\* C35: when the listening port of a VLAN cannot be bound, Start, and so
\* StartAll, returns an error to its caller, and the other VLANs still start.
StartupErrorsSurface == [][StartupErrorStep]_vars

\* rx begins with a whole record of a length ReadFrame accepts whose source
\* MAC (bytes 6..11 of the frame) is all zeros.
ZeroSource(rx) ==
  /\ Len(rx) >= 4
  /\ LET L == rx[3] * 256 + rx[4]
     IN /\ PrefixIs(rx, L)
        /\ L >= 14 /\ L <= 1518
        /\ Len(rx) >= 4 + L
        /\ \A i \in 11..16 : rx[i] = 0

\* The reader of c reads a frame from the all-zero MAC in this step.
ReadsZeroSource(c) ==
  reader[c].pc = "loop" /\ link'[c].ios # link[c].ios /\ ZeroSource(link[c].rx)

\* The frame from the all-zero MAC is not learned and not forwarded, the
\* reader turns to the cleanup of its connection, and dropped_frames, the
\* one error counter of the statistics, goes up by one.
ZeroSourceStep ==
  \A c \in Conns :
    ReadsZeroSource(c) =>
      /\ macTable' = macTable /\ learners' = learners
      /\ reader'[c].sent = {} /\ \A k \in Conns : link'[k].tx = link[k].tx
      /\ reader'[c].pc = "cleanup"
      /\ droppedFrames'[PortOf(c)] = droppedFrames[PortOf(c)] + 1

\* C36: a frame whose source MAC is all zeros is neither learned nor
\* forwarded, its connection is torn down, and the validation failure shows
\* as an increment of dropped_frames.
ZeroSourceCounted == [][ZeroSourceStep]_vars

\* cleanupConnection(c) calls vs.macTable.Delete(key) in this step.
EvictionDeletes(c) == reader[c].pc = "evict" /\ reader'[c].pc = "sweep"

\* The entry cleanupConnection(c) deletes is, when it is deleted, bound to c.
EvictionStep ==
  \A c \in Conns :
    EvictionDeletes(c) /\ reader[c].key \in DOMAIN macTable[PortOf(c)]
      => BoundTo(macTable[PortOf(c)][reader[c].key], c)

\* C37: cleanupConnection(c) never deletes a MAC table entry that is bound,
\* at the moment of the deletion, to a connection other than c, also when
\* another reader learns the MAC on its own connection during c's sweep.
EvictionPrecise == [][EvictionStep]_vars

\* cleanupStaleMACs of VLAN p calls vs.macTable.Delete(key) in this step.
AgingDeletes(p) == cleaner[p].pc = "delete" /\ cleaner'[p].pc = "range"

\* The entry an aging pass deletes is, when it is deleted, older than the
\* timeout or bound to a closed connection.
AgingStep ==
  \A p \in Ports :
    AgingDeletes(p) /\ cleaner[p].key \in DOMAIN macTable[p]
      => IsStale(macTable[p][cleaner[p].key], now)

\* C38: an aging pass never deletes an entry that, at the moment of the
\* deletion, was learned within the timeout on an open connection, also
\* when a frame from that MAC refreshes the entry between the pass's
\* staleness test and its delete.
AgingPrecise == [][AgingStep]_vars

\* One VLAN with a attached; c connects at any moment; both send frames from
\* MAC 2, so the MAC moves between them; a's client may close its socket;
\* the VLAN is stopped at any moment, with frames in flight.
InitRef == InitRunning({9999}, {A}, MaxFrames)

NextRef ==
  \/ \E c \in {A, C} : ReadFrame(c, [src |-> 2, dst |-> 4])
  \/ \E c \in {A, C} : Flooding(c)
  \/ PeerClose(A) \/ ReadError(A)
  \/ Accept(9999, C) \/ Store(9999) \/ Spawn(9999)
  \/ StopAllBegin \/ ManagerStep
  \/ AcceptorExit(9999) \/ CleanerExit(9999)
  \/ \E c \in {A, C} : ReaderShutdown(c) \/ ReadClosed(c) \/ Cleanup(c)

SpecRef == InitRef /\ [][NextRef]_vars

\* The reader of c is inside cleanupConnection(c).
InCleanup(c) == reader[c].pc \in {"sweep", "evict"}

\* Stop has returned for every VLAN and every goroutine it waited for is gone.
Stopped == mgr.pc = "stopped" /\ \A c \in Conns : reader[c].pc \in {"idle", "done"}

\* C39: every MAC table entry is bound to a connection that is in the
\* connection set of the same VLAN or inside its own cleanupConnection call;
\* and once Stop has returned and all readers have exited, the connection
\* set and the MAC table are empty.
ReferentialIntegrity ==
  \A p \in Ports :
    /\ \A m \in DOMAIN macTable[p] :
         LET c == macTable[p][m].Connection
         IN PortOf(c) = p /\ (c \in connections[p] \/ InCleanup(c))
    /\ Stopped => connections[p] = {} /\ macTable[p] = EmptyMap

\* C39 witness: MAC 2 was learned on a and on c, the VLAN was stopped, both
\* readers have exited, and the set and the table are empty.
ReferentialIntegrityWitness ==
  /\ Stopped
  /\ {A, C} \subseteq {learners[9999][2][i].conn : i \in 1..Len(learners[9999][2])}
  /\ reader[A].pc = "done" /\ reader[C].pc = "done"
  /\ connections[9999] = {} /\ macTable[9999] = EmptyMap
====
